---- MODULE Spec2Model ----
(***************************************************************************)
(* MT5 Trading Analyzer: a model of the alert engine (analysis/            *)
(* alerts_engine.py, with the DataManager and ConfigManager state it       *)
(* reads), of the drawdown episode segmentation (analysis/                *)
(* drawdown_analyzer.py) and of the stateless routines of analysis/ and    *)
(* utils/helpers.py, each called on inputs drawn from bounded sets.        *)
(*                                                                         *)
(* Numbers.  Python floats are modelled by exact rationals: a percentage   *)
(* is a pair <<n, d>> with d > 0 standing for n/d.  The equity values      *)
(* the model draws from were compared against IEEE doubles: every          *)
(* comparison the code makes gives the same answer on the rationals.       *)
(* Equity value 0 is left out of the input sets (a running maximum of 0    *)
(* makes the code divide by zero and produce inf/NaN).                     *)
(***************************************************************************)
EXTENDS Integers, Sequences, FiniteSets, TLC

VARIABLES
    \* DataManager
    connected,        \* DataManager.connected
    account_info,     \* None, or Some([balance, equity, margin, margin_free])
    positions,        \* None, or Some(the open positions: volume, profit, minutes open
                      \* and the share of the monthly VaR their rates give)
    equity_data,      \* None, or Some(the equity curve, one value per day)
    now,              \* the clock datetime.now() reads, in seconds
    \* ConfigManager
    cfg_thresholds,   \* config["alert_thresholds"]
    \* AlertsEngine
    alert_thresholds, \* AlertsEngine.alert_thresholds
    alerts,           \* AlertsEngine.alerts
    optimizations,    \* AlertsEngine.optimizations
    last_check,       \* Some([alerts, opts]) the latest check_alerts call returned;
                      \* None once a later operation changed what the engine reads
    alerts_log,       \* every alert check_alerts has returned, in the order returned
    optimizations_log,\* every suggestion check_alerts has returned, in the order returned
    \* DrawdownAnalyzer
    equity_series,    \* identify_drawdowns: argument, the equity values, one per day
    threshold_pct,    \* identify_drawdowns: argument
    dd_result,        \* identify_drawdowns: the returned list
    dd_pc,            \* "input" before the call of identify_drawdowns, "done" after it
    \* the other stateless routines
    window,           \* calculate_rolling_metrics: argument
    metrics,          \* calculate_global_risk_score, interpret_d_leverage: arguments
    returns,          \* calculate_sharpe_ratio: argument
    called,           \* the routine called after "input", "none" before the call
    result,           \* what that routine returned
    \* DataManager and MT5Connector, the rest of their state
    historical_deals, \* None, or Some(the deals of the last 90 days)
    historical_orders,\* None, or Some(the orders of the last 90 days)
    mt5_connected,    \* MT5Connector.connected
    last_call,        \* the latest of the connect_to_mt5 and disconnect calls, with
                      \* what it reported: "none", "connected", "failed", "disconnect"
    \* the widgets' history buffers
    risk_history,     \* RiskScoreWidget.risk_history
    metrics_history,  \* PerformanceWidget.metrics_history
    d_leverage_history, \* DLeverageChartWidget.d_leverage_history
    history_log,      \* per widget, the times of all the updates that appended
    \* MainWindow
    auto_refresh_enabled, \* MainWindow.auto_refresh_enabled
    threads           \* the monitoring threads started, each with its position

dataVars == <<connected, account_info, positions, equity_data>>
engineVars == <<alert_thresholds, alerts, optimizations, last_check,
                alerts_log, optimizations_log>>
managerVars == <<historical_deals, historical_orders, mt5_connected, last_call>>
widgetVars == <<risk_history, metrics_history, d_leverage_history, history_log>>
windowVars == <<auto_refresh_enabled, threads>>
appVars == <<managerVars, widgetVars, windowVars>>
alertVars == <<dataVars, now, cfg_thresholds, engineVars, appVars>>
statVars == <<window, metrics, returns, called, result>>
ddVars == <<equity_series, threshold_pct, dd_result, dd_pc, statVars>>
vars == <<alertVars, ddVars>>

\* An optional value of the code: None, or Some(v) for the value v.
None == <<>>
Some(v) == <<v>>

-----------------------------------------------------------------------------
(* Exact rationals standing for the floats of the code. *)

Abs(x) == IF x < 0 THEN -x ELSE x

\* n/d with the sign carried by the numerator (d # 0)
Frac(n, d) == IF d < 0 THEN <<-n, -d>> ELSE <<n, d>>

FLess(a, b) == a[1] * b[2] < b[1] * a[2]
FEq(a, b) == a[1] * b[2] = b[1] * a[2]
FLeq(a, b) == a[1] * b[2] <= b[1] * a[2]
FInt(k) == <<k, 1>>
FAbs(a) == <<Abs(a[1]), a[2]>>
\* a / b for b # 0
FDiv(a, b) == Frac(a[1] * b[2], a[2] * b[1])
\* a * k / m for integers k, m (m > 0)
FScale(a, k, m) == Frac(a[1] * k, a[2] * m)

-----------------------------------------------------------------------------
(* DrawdownAnalyzer.identify_drawdowns *)

MIN_POINTS == 5
DAYS_PER_YEAR == 365

\* The timestamp of the i-th point (1-based position i): daily series, day i - 1.
DateOf(i) == i - 1

\* equity_series.cummax() at position i
RECURSIVE CumMax(_, _)
CumMax(eq, i) ==
    IF i = 1 THEN eq[1]
    ELSE LET m == CumMax(eq, i - 1) IN IF eq[i] > m THEN eq[i] ELSE m

\* (equity_series - rolling_max) / rolling_max * 100 at position i
DrawdownAt(eq, i) ==
    LET m == CumMax(eq, i) IN Frac((eq[i] - m) * 100, m)

\* The loop variables before the first iteration (lines 39-44).
LoopInit ==
    [ in_drawdown |-> FALSE, start_idx |-> None, start_value |-> None,
      current_dd |-> FInt(0), current_idx |-> None, drawdowns |-> <<>> ]

\* The position at which a drawdown starts: the point that crosses the threshold.
EpisodeStart(eq, i) == i

\* The record appended when the drawdown ends at position i (lines 60-87).
CompletedEpisode(eq, st, i) ==
    LET end_idx == i
        recovery_value == eq[i]
        bottom_value == eq[st.current_idx]
        drawdown_duration == DateOf(st.current_idx) - DateOf(st.start_idx)
        recovery_duration == DateOf(end_idx) - DateOf(st.current_idx)
        total_duration == DateOf(end_idx) - DateOf(st.start_idx)
        drawdown_amount == Frac((bottom_value - st.start_value) * 100, st.start_value)
        recovery_amount == Frac((recovery_value - bottom_value) * 100, bottom_value)
    IN  [ start_date |-> DateOf(st.start_idx),
          bottom_date |-> DateOf(st.current_idx),
          end_date |-> Some(DateOf(end_idx)),
          max_drawdown_pct |-> st.current_dd,
          drawdown_amount_pct |-> drawdown_amount,
          recovery_amount_pct |-> recovery_amount,
          drawdown_duration_days |-> drawdown_duration,
          recovery_duration_days |-> Some(recovery_duration),
          total_duration_days |-> total_duration,
          pain_index |-> FScale(FAbs(st.current_dd), total_duration, DAYS_PER_YEAR),
          recovery_ratio |-> IF drawdown_amount[1] # 0
                             THEN FAbs(FDiv(recovery_amount, drawdown_amount))
                             ELSE FInt(0) ]

\* The recovery duration reported for a drawdown that has not ended (line 104).
ActiveRecoveryDuration == 0

\* The record appended when the series ends in drawdown (lines 97-125).
ActiveEpisode(eq, st) ==
    LET end_idx == Len(eq)
        recovery_value == eq[end_idx]
        bottom_value == eq[st.current_idx]
        drawdown_duration == DateOf(st.current_idx) - DateOf(st.start_idx)
        recovery_duration == ActiveRecoveryDuration
        total_duration == DateOf(end_idx) - DateOf(st.start_idx)
        drawdown_amount == Frac((bottom_value - st.start_value) * 100, st.start_value)
        recovery_amount == Frac((recovery_value - bottom_value) * 100, bottom_value)
    IN  [ start_date |-> DateOf(st.start_idx),
          bottom_date |-> DateOf(st.current_idx),
          end_date |-> None,
          max_drawdown_pct |-> st.current_dd,
          drawdown_amount_pct |-> drawdown_amount,
          recovery_amount_pct |-> recovery_amount,
          drawdown_duration_days |-> drawdown_duration,
          recovery_duration_days |-> Some(recovery_duration),
          total_duration_days |-> total_duration,
          pain_index |-> FScale(FAbs(st.current_dd), total_duration, DAYS_PER_YEAR),
          recovery_ratio |-> IF drawdown_amount[1] # 0
                             THEN FAbs(FDiv(recovery_amount, drawdown_amount))
                             ELSE FInt(0),
          active |-> TRUE ]

\* (opens the episode at the threshold as well)
OpensEpisode_AtThreshold(value, thr) == FLeq(value, FInt(thr))

\* line 47: value < threshold_pct
OpensEpisode(value, thr) == FLess(value, FInt(thr))

\* One iteration of the loop over drawdown_series.items() (lines 46-94).
LoopStep(eq, thr, st, i) ==
    LET value == DrawdownAt(eq, i) IN
    IF ~st.in_drawdown /\ OpensEpisode(value, thr)
    THEN [ st EXCEPT !.in_drawdown = TRUE,
                     !.start_idx = EpisodeStart(eq, i),
                     !.start_value = eq[EpisodeStart(eq, i)],
                     !.current_dd = value,
                     !.current_idx = i ]
    ELSE IF st.in_drawdown
    THEN IF FLess(value, st.current_dd)
         THEN [ st EXCEPT !.current_dd = value, !.current_idx = i ]
         ELSE IF value[1] >= 0
         THEN [ in_drawdown |-> FALSE, start_idx |-> None, start_value |-> None,
                current_dd |-> FInt(0), current_idx |-> None,
                drawdowns |-> Append(st.drawdowns, CompletedEpisode(eq, st, i)) ]
         ELSE st
    ELSE st

\* The loop variables after the first i iterations.
RECURSIVE LoopAfter(_, _, _)
LoopAfter(eq, thr, i) ==
    IF i = 0 THEN LoopInit ELSE LoopStep(eq, thr, LoopAfter(eq, thr, i - 1), i)

\* (the list left in the order the loop found the episodes)
SortedByMaxDrawdown_Unsorted(s) == s

\* sorted(drawdowns, key=max_drawdown_pct): stable, ascending
RECURSIVE InsertSorted(_, _)
InsertSorted(s, e) ==
    IF s = <<>> THEN <<e>>
    ELSE IF FLess(e.max_drawdown_pct, s[Len(s)].max_drawdown_pct)
         THEN Append(InsertSorted(SubSeq(s, 1, Len(s) - 1), e), s[Len(s)])
         ELSE Append(s, e)

RECURSIVE SortedByMaxDrawdown(_)
SortedByMaxDrawdown(s) ==
    IF s = <<>> THEN <<>>
    ELSE InsertSorted(SortedByMaxDrawdown(SubSeq(s, 1, Len(s) - 1)), s[Len(s)])

\* (the trailing block of lines 96-125 left out)
EpisodesFound_NoActive(eq, thr) == LoopAfter(eq, thr, Len(eq)).drawdowns

\* The episodes in the order the loop found them, the active one last.
EpisodesFound(eq, thr) ==
    LET st == LoopAfter(eq, thr, Len(eq)) IN
    IF st.in_drawdown THEN Append(st.drawdowns, ActiveEpisode(eq, st))
    ELSE st.drawdowns

identify_drawdowns(eq, thr) ==
    IF Len(eq) < MIN_POINTS THEN <<>>
    ELSE SortedByMaxDrawdown(EpisodesFound(eq, thr))

-----------------------------------------------------------------------------
(* RiskMetrics.analyze_drawdown_profile *)

PROFILE_MIN_POINTS == 10

EmptyDict == <<>>

RECURSIVE GCD(_, _)
GCD(a, b) == IF b = 0 THEN a ELSE GCD(b, a % b)

\* the rational a in lowest terms
FReduce(a) ==
    LET g == GCD(Abs(a[1]), a[2]) IN IF g = 0 THEN a ELSE <<a[1] \div g, a[2] \div g>>

FAdd(a, b) ==
    LET x == FReduce(a)
        y == FReduce(b)
    IN  FReduce(<<x[1] * y[2] + y[1] * x[2], x[2] * y[2]>>)

\* helpers.calculate_drawdown: (equity - rolling_max) / rolling_max * 100
calculate_drawdown_FromFirst(eq) ==
    [ i \in 1..Len(eq) |-> Frac((eq[i] - eq[1]) * 100, eq[1]) ]

calculate_drawdown(eq) == [ i \in 1..Len(eq) |-> DrawdownAt(eq, i) ]

\* line 313: dd < threshold
ProfileOpens(dd, threshold) == FLess(dd, FInt(threshold))

\* lines 307-310
ProfileLoopInit ==
    [ in_drawdown |-> FALSE, start_idx |-> None, current_dd |-> FInt(0),
      significant_drawdowns |-> <<>> ]

ProfileEpisode(start_idx, end_idx, current_dd) ==
    [ start |-> DateOf(start_idx), end |-> DateOf(end_idx), max_drawdown |-> current_dd,
      duration_days |-> DateOf(end_idx) - DateOf(start_idx), recovery_duration |-> None ]

\* One iteration of the loop over drawdown_series.items() (lines 312-333).
ProfileLoopStep(drawdown_series, threshold, st, i) ==
    LET dd == drawdown_series[i] IN
    IF ~st.in_drawdown /\ ProfileOpens(dd, threshold)
    THEN [ st EXCEPT !.in_drawdown = TRUE, !.start_idx = i, !.current_dd = dd ]
    ELSE IF st.in_drawdown
    THEN IF FLess(dd, st.current_dd)
         THEN [ st EXCEPT !.current_dd = dd ]
         ELSE IF dd[1] >= 0
         THEN [ in_drawdown |-> FALSE, start_idx |-> None, current_dd |-> FInt(0),
                significant_drawdowns |->
                    Append(st.significant_drawdowns, ProfileEpisode(st.start_idx, i, st.current_dd)) ]
         ELSE st
    ELSE st

RECURSIVE ProfileLoopAfter(_, _, _)
ProfileLoopAfter(drawdown_series, threshold, i) ==
    IF i = 0 THEN ProfileLoopInit
    ELSE ProfileLoopStep(drawdown_series, threshold,
                         ProfileLoopAfter(drawdown_series, threshold, i - 1), i)

\* (the block of lines 336-343 left out)
significant_drawdowns_NoUnfinished(eq, threshold) ==
    ProfileLoopAfter(calculate_drawdown(eq), threshold, Len(eq)).significant_drawdowns

\* lines 304-343: the episodes in the order found, the unfinished one last
significant_drawdowns(eq, threshold) ==
    LET drawdown_series == calculate_drawdown(eq)
        st == ProfileLoopAfter(drawdown_series, threshold, Len(eq))
    IN  IF st.in_drawdown
        THEN Append(st.significant_drawdowns,
                    ProfileEpisode(st.start_idx, Len(eq), st.current_dd))
        ELSE st.significant_drawdowns

\* the sum of a column
RECURSIVE SumOf(_, _)
SumOf(ps, field) ==
    IF ps = <<>> THEN 0 ELSE ps[1][field] + SumOf(Tail(ps), field)

RECURSIVE FSum(_, _)
FSum(s, field) == IF s = <<>> THEN FInt(0) ELSE FAdd(s[1][field], FSum(Tail(s), field))

RECURSIVE FMin(_, _)
FMin(s, field) ==
    IF Len(s) = 1 THEN s[1][field]
    ELSE LET m == FMin(Tail(s), field) IN IF FLeq(s[1][field], m) THEN s[1][field] ELSE m

RECURSIVE MaxOf(_, _)
MaxOf(s, field) ==
    IF Len(s) = 1 THEN s[1][field]
    ELSE LET m == MaxOf(Tail(s), field) IN IF s[1][field] >= m THEN s[1][field] ELSE m

analyze_drawdown_profile(eq, threshold) ==
    IF Len(eq) < PROFILE_MIN_POINTS THEN EmptyDict
    ELSE LET found == significant_drawdowns(eq, threshold) IN
         IF found # <<>>
         THEN [ count |-> Len(found),
                avg_drawdown |-> FDiv(FSum(found, "max_drawdown"), FInt(Len(found))),
                avg_duration |-> Frac(SumOf(found, "duration_days"), Len(found)),
                max_drawdown |-> FMin(found, "max_drawdown"),
                max_duration |-> MaxOf(found, "duration_days"),
                drawdowns |-> found ]
         ELSE [ count |-> 0, avg_drawdown |-> FInt(0), avg_duration |-> FInt(0),
                max_drawdown |-> FInt(0), max_duration |-> 0, drawdowns |-> <<>> ]

-----------------------------------------------------------------------------
(* Number formatting: Python's format(x, ".<d>f") on the rational x *)

RECURSIVE Pow10(_)
Pow10(d) == IF d = 0 THEN 1 ELSE 10 * Pow10(d - 1)

\* |x| * 10^d rounded to the nearest integer, ties to even
RoundScaled(x, d) ==
    LET num == Abs(x[1]) * Pow10(d)
        q == num \div x[2]
        r == num % x[2]
    IN  IF 2 * r > x[2] THEN q + 1
        ELSE IF 2 * r < x[2] THEN q
        ELSE IF q % 2 = 0 THEN q ELSE q + 1

\* the decimal digits of k, left-padded with zeros to width w
RECURSIVE Digits(_, _)
Digits(k, w) ==
    IF w <= 1 THEN ToString(k)
    ELSE IF k < Pow10(w - 1) THEN "0" \o Digits(k, w - 1)
    ELSE ToString(k)

\* the sign is kept when a negative value rounds to zero
\* f"{x:.<d>f}"
FormatFixed(x, d) ==
    LET k == RoundScaled(x, d) IN
    (IF x[1] < 0 THEN "-" ELSE "") \o ToString(k \div Pow10(d))
        \o (IF d = 0 THEN "" ELSE "." \o Digits(k % Pow10(d), d))

FSub(a, b) == Frac(a[1] * b[2] - b[1] * a[2], a[2] * b[2])

-----------------------------------------------------------------------------
(* utils/constants.py and ConfigManager.DEFAULT_CONFIG *)

TRADING_CATEGORIES ==
    [ Scalping |-> ("sous-optimal" :> FInt(10) @@ "optimal_max" :> <<1625, 100>>),
      Intraday |-> ("sous-optimal" :> FInt(8)  @@ "optimal_max" :> FInt(13)),
      Swing    |-> ("sous-optimal" :> FInt(5)  @@ "optimal_max" :> <<975, 100>>) ]

\* d[k] of a Python dict: Some(value), or None where the code raises KeyError
DictGet(d, k) == IF k \in DOMAIN d THEN Some(d[k]) ELSE None

DEFAULT_ALERT_THRESHOLDS ==
    [ margin_pct |-> FInt(50), daily_loss |-> FInt(-5), drawdown |-> FInt(-15),
      d_leverage |-> <<1625, 100>>, var_monthly |-> FInt(12),
      correlation |-> <<8, 10>>, sector_concentration |-> FInt(30) ]

-----------------------------------------------------------------------------
(* The routines over one equity series: RiskMetrics.calculate_maximum_drawdown, *)
(* DrawdownAnalyzer.find_change_points, PerformanceMetrics.calculate_metrics     *)
(* and calculate_rolling_metrics.                                                *)

\* drawdown_series.idxmin(): the first position of the smallest value
IdxMin(s) ==
    CHOOSE i \in 1..Len(s) :
        /\ \A j \in 1..Len(s) : FLeq(s[i], s[j])
        /\ \A j \in 1..(i - 1) : ~FEq(s[j], s[i])

\* equity_series.loc[:max_drawdown_idx].cummax().idxmax(): the first position at
\* which the running maximum has its final value
PeakIdx(eq, max_drawdown_idx) ==
    CHOOSE i \in 1..max_drawdown_idx :
        /\ CumMax(eq, i) = CumMax(eq, max_drawdown_idx)
        /\ \A j \in 1..(i - 1) : CumMax(eq, j) # CumMax(eq, max_drawdown_idx)

calculate_maximum_drawdown(eq) ==
    IF Len(eq) < 2
    THEN [ max_drawdown |-> FInt(0), peak_idx |-> None, max_drawdown_idx |-> None,
           duration_days |-> 0 ]
    ELSE LET drawdown_series == calculate_drawdown(eq)
             max_drawdown_idx == IdxMin(drawdown_series)
             peak_idx == PeakIdx(eq, max_drawdown_idx)
         IN  [ max_drawdown |-> drawdown_series[max_drawdown_idx],
               peak_idx |-> Some(DateOf(peak_idx)),
               max_drawdown_idx |-> Some(DateOf(max_drawdown_idx)),
               duration_days |-> DateOf(max_drawdown_idx) - DateOf(peak_idx) ]

CHANGE_POINT_MIN_POINTS == 30
SHORT_WINDOW == 10
LONG_WINDOW == 30
FIRST_COMPARED == 30
DEFAULT_SENSITIVITY == <<1, 20>>

\* equity_series.pct_change().dropna(): entry i is the return of point i + 1
pct_change(eq) ==
    [ i \in 1..(Len(eq) - 1) |-> FReduce(Frac(eq[i + 1] - eq[i], eq[i])) ]

RECURSIVE FSumRange(_, _, _)
FSumRange(s, from, to) ==
    IF from > to THEN FInt(0) ELSE FAdd(s[from], FSumRange(s, from + 1, to))

\* returns.rolling(window).mean() at position j (j >= window)
RollingMean(r, w, j) == FDiv(FSumRange(r, j - w + 1, j), FInt(w))

MaDiff(r, j) == FSub(RollingMean(r, SHORT_WINDOW, j), RollingMean(r, LONG_WINDOW, j))

\* lines 224-228: a change of sign of short - long that is larger than sensitivity
IsChangePoint(prev_diff, diff, sensitivity) ==
    /\ \/ FLess(prev_diff, FInt(0)) /\ FLess(FInt(0), diff)
       \/ FLess(FInt(0), prev_diff) /\ FLess(diff, FInt(0))
    /\ FLess(sensitivity, FAbs(diff))

\* the loop over zip(returns.index[30:], short_ma[30:], long_ma[30:]) from position j
RECURSIVE ChangePointsFrom(_, _, _)
ChangePointsFrom(r, j, sensitivity) ==
    IF j > Len(r) THEN <<>>
    ELSE LET rest == ChangePointsFrom(r, j + 1, sensitivity) IN
         IF j > FIRST_COMPARED + 1 /\ IsChangePoint(MaDiff(r, j - 1), MaDiff(r, j), sensitivity)
         THEN <<DateOf(j + 1)>> \o rest
         ELSE rest

find_change_points(eq, sensitivity) ==
    IF Len(eq) < CHANGE_POINT_MIN_POINTS THEN <<>>
    ELSE ChangePointsFrom(pct_change(eq), FIRST_COMPARED + 1, sensitivity)

METRICS_MIN_POINTS == 2
PERIODS_PER_YEAR == 252

\* drawdown_series.min()
RECURSIVE FMinOf(_)
FMinOf(s) ==
    IF Len(s) = 1 THEN s[1]
    ELSE LET m == FMinOf(Tail(s)) IN IF FLeq(s[1], m) THEN s[1] ELSE m

\* (equity_series.iloc[-1] / equity_series.iloc[0] - 1) * 100
TotalReturn(eq) == FReduce(Frac((eq[Len(eq)] - eq[1]) * 100, eq[1]))

\* (computes from a single point on)
calculate_metrics_FromOnePoint(eq) ==
    IF Len(eq) < 1 THEN EmptyDict
    ELSE [ total_return |-> TotalReturn(eq),
           max_drawdown |-> FMinOf(calculate_drawdown(eq)),
           period_count |-> Len(eq) - 1 ]

\* The entries of the result that need no square root: total_return,
\* annualized_return, max_drawdown and period_count.
calculate_metrics(eq) ==
    IF Len(eq) < METRICS_MIN_POINTS THEN EmptyDict
    ELSE LET period_count == Len(pct_change(eq))
             total_return == TotalReturn(eq)
         IN  [ total_return |-> total_return,
               annualized_return |->
                   IF period_count > 0
                   THEN FReduce(FScale(total_return, PERIODS_PER_YEAR, period_count))
                   ELSE FInt(0),
               max_drawdown |-> FMinOf(calculate_drawdown(eq)),
               period_count |-> period_count ]

\* The "returns" and "drawdown" series of the result; an entry the loop of
\* lines 123-141 never assigns stays None.
calculate_rolling_metrics(eq, w) ==
    IF Len(eq) < w + 1 THEN EmptyDict
    ELSE LET n == Len(pct_change(eq))
             window_equity(i) == SubSeq(eq, i - w + 1, i + 1)
         IN  [ returns |->
                   [ i \in 1..n |->
                       IF i < w THEN None ELSE Some(TotalReturn(window_equity(i))) ],
               drawdown |->
                   [ i \in 1..n |->
                       IF i < w THEN None
                       ELSE Some(FMinOf(calculate_drawdown(window_equity(i)))) ] ]

-----------------------------------------------------------------------------
(* helpers.calculate_sharpe_ratio.  Returns are counted in millionths; the     *)
(* result is kept as its kind (zero, finite, inf, nan) and its sign.           *)

\* rf_period = (1 + 0.03) ** (1 / 252) - 1 = 117.3 millionths, rounded down
RF_PERIOD == 117

RECURSIVE SumSeq(_)
SumSeq(s) == IF s = <<>> THEN 0 ELSE s[1] + SumSeq(Tail(s))

\* the sign of excess_returns.mean(), for returns that are whole millionths
ExcessMeanSign(r) == IF SumSeq(r) > RF_PERIOD * Len(r) THEN 1 ELSE -1

IsConstant(r) == \A i \in 1..Len(r) : r[i] = r[1]

Zero == [ kind |-> "zero", sign |-> 0 ]
NaN == [ kind |-> "nan", sign |-> 0 ]
Infinite(sign) == [ kind |-> "inf", sign |-> sign ]
Finite(sign) == [ kind |-> "finite", sign |-> sign ]

\* What the call can return.  excess_returns.std() is the sample standard
\* deviation: NaN for a single return; for equal returns 0.0, or the residue of
\* rounding the mean, and the quotient is then infinite or a large number.
calculate_sharpe_ratio(r) ==
    IF Len(r) = 0 THEN { Zero }
    ELSE IF Len(r) = 1 THEN { NaN }
    ELSE IF IsConstant(r) THEN { Infinite(ExcessMeanSign(r)), Finite(ExcessMeanSign(r)) }
    ELSE { Finite(ExcessMeanSign(r)) }

-----------------------------------------------------------------------------
(* RiskScoreCalculator.calculate_global_risk_score *)

REQUIRED_KEYS ==
    { "d_leverage", "trading_style", "var_monthly", "max_drawdown", "margin_pct",
      "concentration", "volatility" }

\* self.weights, in hundredths
weights ==
    [ d_leverage |-> 25, var |-> 20, drawdown |-> 15, margin_pct |-> 15,
      concentration |-> 15, volatility |-> 10 ]

FMul(a, b) == FReduce(<<a[1] * b[1], a[2] * b[2]>>)

\* (the progress counted down from the upper threshold)
Progress_Reversed(x, from, to, low, span) ==
    FAdd(FInt(low), FMul(FDiv(FSub(to, x), FSub(to, from)), FInt(span)))

\* low + (x - from) / (to - from) * span
Progress(x, from, to, low, span) ==
    FAdd(FInt(low), FMul(FDiv(FSub(x, from), FSub(to, from)), FInt(span)))

\* lines 57-87
DLeverageScore(m) ==
    LET style == m["trading_style"]
        d_leverage == m["d_leverage"]
        threshold_min == FInt(0)
        threshold_optimal ==
            IF style = "scalping" THEN FInt(10)
            ELSE IF style = "intraday" THEN FInt(8) ELSE FInt(5)
        threshold_max ==
            IF style = "scalping" THEN TRADING_CATEGORIES["Scalping"]["optimal_max"]
            ELSE IF style = "intraday" THEN TRADING_CATEGORIES["Intraday"]["optimal_max"]
            ELSE TRADING_CATEGORIES["Swing"]["optimal_max"]
        threshold_extreme == FScale(threshold_max, 3, 2)
    IN  IF FLeq(d_leverage, threshold_min) THEN FInt(0)
        ELSE IF FLeq(d_leverage, threshold_optimal)
        THEN FAdd(FInt(20), FMul(FDiv(d_leverage, threshold_optimal), FInt(30)))
        ELSE IF FLeq(d_leverage, threshold_max)
        THEN Progress(d_leverage, threshold_optimal, threshold_max, 50, 20)
        ELSE IF FLeq(d_leverage, threshold_extreme)
        THEN Progress(d_leverage, threshold_max, threshold_extreme, 70, 30)
        ELSE FInt(100)

\* lines 92-111
VarScore(m) ==
    LET var_monthly == m["var_monthly"] IN
    IF FLeq(var_monthly, FInt(5)) THEN FMul(FDiv(var_monthly, FInt(5)), FInt(30))
    ELSE IF FLeq(var_monthly, FInt(10)) THEN Progress(var_monthly, FInt(5), FInt(10), 30, 30)
    ELSE IF FLeq(var_monthly, FInt(15)) THEN Progress(var_monthly, FInt(10), FInt(15), 60, 20)
    ELSE IF FLeq(var_monthly, FInt(25)) THEN Progress(var_monthly, FInt(15), FInt(25), 80, 20)
    ELSE FInt(100)

\* lines 116-135
DrawdownScore(m) ==
    LET drawdown == FAbs(m["max_drawdown"]) IN
    IF FLeq(drawdown, FInt(5)) THEN FMul(FDiv(drawdown, FInt(5)), FInt(20))
    ELSE IF FLeq(drawdown, FInt(15)) THEN Progress(drawdown, FInt(5), FInt(15), 20, 40)
    ELSE IF FLeq(drawdown, FInt(25)) THEN Progress(drawdown, FInt(15), FInt(25), 60, 20)
    ELSE IF FLeq(drawdown, FInt(40)) THEN Progress(drawdown, FInt(25), FInt(40), 80, 20)
    ELSE FInt(100)

\* lines 140-159
MarginScore(m) ==
    LET margin_pct == m["margin_pct"] IN
    IF FLeq(margin_pct, FInt(20)) THEN FMul(FDiv(margin_pct, FInt(20)), FInt(20))
    ELSE IF FLeq(margin_pct, FInt(40)) THEN Progress(margin_pct, FInt(20), FInt(40), 20, 30)
    ELSE IF FLeq(margin_pct, FInt(70)) THEN Progress(margin_pct, FInt(40), FInt(70), 50, 30)
    ELSE IF FLeq(margin_pct, FInt(90)) THEN Progress(margin_pct, FInt(70), FInt(90), 80, 20)
    ELSE FInt(100)

\* lines 164-167
ConcentrationScore(m) == FMul(m["concentration"], FInt(100))

\* lines 171-190
VolatilityScore(m) ==
    LET volatility == m["volatility"] IN
    IF FLeq(volatility, FInt(10)) THEN FMul(FDiv(volatility, FInt(10)), FInt(25))
    ELSE IF FLeq(volatility, FInt(20)) THEN Progress(volatility, FInt(10), FInt(20), 25, 25)
    ELSE IF FLeq(volatility, FInt(30)) THEN Progress(volatility, FInt(20), FInt(30), 50, 25)
    ELSE IF FLeq(volatility, FInt(50)) THEN Progress(volatility, FInt(30), FInt(50), 75, 25)
    ELSE FInt(100)

component_scores(m) ==
    [ d_leverage |-> DLeverageScore(m), var |-> VarScore(m), drawdown |-> DrawdownScore(m),
      margin_pct |-> MarginScore(m), concentration |-> ConcentrationScore(m),
      volatility |-> VolatilityScore(m) ]

RECURSIVE WeightedSum(_, _)
WeightedSum(scores, components) ==
    IF components = {} THEN FInt(0)
    ELSE LET c == CHOOSE x \in components : TRUE IN
         FAdd(FMul(scores[c], Frac(weights[c], 100)), WeightedSum(scores, components \ {c}))

\* round(x): to the nearest integer, ties to the even one
Round(x) == (IF x[1] < 0 THEN -1 ELSE 1) * RoundScaled(x, 0)

\* (the lower bound of each band taken into the band below)
RatingOf_Inclusive(global_score) ==
    IF global_score <= 20 THEN [ rating |-> "Très faible", color |-> "#0070C0" ]
    ELSE IF global_score <= 40 THEN [ rating |-> "Faible", color |-> "#00B050" ]
    ELSE IF global_score <= 60 THEN [ rating |-> "Modéré", color |-> "#FFC000" ]
    ELSE IF global_score <= 80 THEN [ rating |-> "Élevé", color |-> "#FF6600" ]
    ELSE [ rating |-> "Extrême", color |-> "#C00000" ]

\* lines 203-217
RatingOf(global_score) ==
    IF global_score < 20 THEN [ rating |-> "Très faible", color |-> "#0070C0" ]
    ELSE IF global_score < 40 THEN [ rating |-> "Faible", color |-> "#00B050" ]
    ELSE IF global_score < 60 THEN [ rating |-> "Modéré", color |-> "#FFC000" ]
    ELSE IF global_score < 80 THEN [ rating |-> "Élevé", color |-> "#FF6600" ]
    ELSE [ rating |-> "Extrême", color |-> "#C00000" ]

\* (a partial score in place of the neutral one)
NeutralResult_Partial ==
    [ score |-> 0, details |-> EmptyDict, rating |-> "Très faible", color |-> "#0070C0" ]

\* line 51
NeutralResult ==
    [ score |-> 50, details |-> EmptyDict, rating |-> "Indéterminé", color |-> "gray" ]

calculate_global_risk_score(m) ==
    IF ~(\A k \in REQUIRED_KEYS : k \in DOMAIN m) THEN NeutralResult
    ELSE LET scores == component_scores(m)
             global_score == Round(WeightedSum(scores, DOMAIN scores))
             band == RatingOf(global_score)
         IN  [ score |-> global_score, details |-> scores,
               rating |-> band.rating, color |-> band.color ]

-----------------------------------------------------------------------------
(* MetricsInterpreter.interpret_d_leverage, called without historical_values *)

\* self.d_leverage_thresholds (lines 42-55)
d_leverage_thresholds ==
    [ scalping |-> ("sous-optimal" :> FInt(10) @@ "optimal_max" :> <<1625, 100>>),
      intraday |-> ("sous-optimal" :> FInt(8) @@ "optimal_max" :> FInt(13)),
      swing |-> ("sous-optimal" :> FInt(5) @@ "optimal_max" :> <<975, 100>>) ]

\* lines 346-360
StyleOfDuration(avg_position_duration) ==
    IF avg_position_duration = None
    THEN [ style |-> "swing", style_name |-> "Indéterminé (par défaut: Swing/Position)" ]
    ELSE IF avg_position_duration[1] < 30
    THEN [ style |-> "scalping", style_name |-> "Scalping" ]
    ELSE IF avg_position_duration[1] < 60
    THEN [ style |-> "intraday", style_name |-> "Intraday" ]
    ELSE [ style |-> "swing", style_name |-> "Swing/Position" ]

\* lines 367-379
DLeverageRating(d_leverage, sous_optimal, optimal_max) ==
    IF FLess(d_leverage, sous_optimal) THEN "Sous-optimal"
    ELSE IF FLeq(d_leverage, optimal_max) THEN "Optimal"
    ELSE "Excessif"

\* x / d_leverage where d_leverage is zero: a Python float raises
\* ZeroDivisionError, a numpy.float64 gives inf
DividesByZero(d_leverage, rating) == rating = "Sous-optimal" /\ d_leverage[1] = 0

\* f"{((target / d_leverage) - 1) * 100:.1f}"
IncreasePct(target, d_leverage) ==
    IF d_leverage[1] = 0 THEN "inf"
    ELSE FormatFixed(FMul(FSub(FDiv(target, d_leverage), FInt(1)), FInt(100)), 1)

\* lines 410-448: the numbers formatted into the first recommendation, then
\* the two fixed ones
Recommendations(style, style_name, rating, d_leverage, sous_optimal, optimal_max) ==
    IF rating = "Sous-optimal"
    THEN LET target == FScale(FAdd(sous_optimal, optimal_max), 1, 2) IN
         IF style = "scalping"
         THEN << <<"Augmentez progressivement votre exposition", IncreasePct(target, d_leverage),
                   FormatFixed(target, 2)>>,
                 "Identifiez les opportunités de scalping à faible risque pour augmenter votre exposition.",
                 "Considérez l'augmentation du nombre de positions plutôt que leur taille pour une meilleure diversification." >>
         ELSE IF style = "intraday"
         THEN << <<"Augmentez votre exposition", IncreasePct(target, d_leverage)>>,
                 "Recherchez des configurations intraday avec un bon rapport risque/rendement pour augmenter le nombre de positions.",
                 "Envisagez d'élargir votre univers d'instruments pour diversifier l'augmentation d'exposition." >>
         ELSE << <<"Augmentez progressivement votre exposition", IncreasePct(target, d_leverage)>>,
                 "Recherchez des opportunités de swing trading avec des configurations techniques solides.",
                 "Diversifiez votre portefeuille en ajoutant des positions non corrélées pour réduire le risque global." >>
    ELSE IF rating = "Optimal"
    THEN << <<"Maintenez votre D-Leverage actuel qui est optimal pour le style", style_name>>,
            "Surveillez régulièrement ce ratio lors des fluctuations significatives du marché.",
            "Assurez-vous que votre gestion des stops et du risque est en accord avec ce niveau d'exposition." >>
    ELSE LET reduction_needed == FSub(FInt(1), FDiv(optimal_max, d_leverage)) IN
         << <<"Réduisez votre exposition globale", FormatFixed(FMul(reduction_needed, FInt(100)), 1)>>,
            "Identifiez et réduisez en priorité les positions présentant le moins bon rapport rendement/risque.",
            "Implémentez un plan de réduction progressive pour éviter de liquider des positions dans des conditions défavorables." >>

\* lines 368-379: the sentence chosen, with the style and the percentage formatted into it
Interpretation(style_name, rating, d_leverage, optimal_max) ==
    IF rating = "Sous-optimal" THEN <<"Sous-utilisation du capital", style_name>>
    ELSE IF rating = "Optimal" THEN <<"Zone optimale", style_name>>
    ELSE <<"Risque excessif", style_name,
           FormatFixed(FMul(FSub(FDiv(d_leverage, optimal_max), FInt(1)), FInt(100)), 1)>>

LevelColor(rating) ==
    IF rating = "Sous-optimal" THEN "blue" ELSE IF rating = "Optimal" THEN "green" ELSE "red"

\* kind is the number type of d_leverage: "float" or "float64"
interpret_d_leverage(d_leverage, kind, avg_position_duration) ==
    LET chosen == StyleOfDuration(avg_position_duration)
        sous_optimal == d_leverage_thresholds[chosen.style]["sous-optimal"]
        optimal_max == d_leverage_thresholds[chosen.style]["optimal_max"]
        rating == DLeverageRating(d_leverage, sous_optimal, optimal_max)
    IN  IF DividesByZero(d_leverage, rating) /\ kind = "float"
        THEN [ error |-> "float division by zero" ]
        ELSE [ metric |-> "D-Leverage",
               value |-> d_leverage,
               style |-> chosen.style_name,
               optimal_range |-> FormatFixed(sous_optimal, 2) \o " - " \o FormatFixed(optimal_max, 2),
               rating |-> rating,
               interpretation |-> Interpretation(chosen.style_name, rating, d_leverage, optimal_max),
               trend_analysis |-> None,
               recommendations |->
                   Recommendations(chosen.style, chosen.style_name, rating, d_leverage, sous_optimal,
                                   optimal_max),
               color |-> LevelColor(rating) ]

-----------------------------------------------------------------------------
(* RiskMetrics.calculate_var_by_historical and calculate_expected_shortfall.  *)
(* period_days is a perfect square, so that its square root is exact.         *)

VAR_MIN_POINTS == 2

Sqrt(n) == CHOOSE k \in 0..n : k * k = n

\* returns.quantile(q): linear interpolation between the order statistics
Quantile(r, q) ==
    LET sorted == SortSeq(r, LAMBDA a, b : FLess(a, b))
        h == FMul(FInt(Len(r) - 1), q)
        lower == h[1] \div h[2]
        fraction == FSub(h, FInt(lower))
    IN  IF lower + 1 >= Len(r) THEN sorted[Len(r)]
        ELSE FAdd(sorted[lower + 1],
                  FMul(fraction, FSub(sorted[lower + 2], sorted[lower + 1])))

\* (keeps only the returns strictly below the threshold)
TailReturns_Strict(r, var_threshold) == SelectSeq(r, LAMBDA x : FLess(x, var_threshold))

\* returns[returns <= var_threshold]
TailReturns(r, var_threshold) == SelectSeq(r, LAMBDA x : FLeq(x, var_threshold))

RECURSIVE FSumSeq(_)
FSumSeq(s) == IF s = <<>> THEN FInt(0) ELSE FAdd(s[1], FSumSeq(Tail(s)))

FNeg(a) == <<-a[1], a[2]>>

calculate_var_by_historical(r, confidence_level, period_days) ==
    IF Len(r) < VAR_MIN_POINTS THEN FInt(0)
    ELSE LET scaling_factor == FInt(Sqrt(period_days))
             var_quantile == FSub(FInt(1), confidence_level)
         IN  FMul(FMul(FNeg(Quantile(r, var_quantile)), scaling_factor), FInt(100))

calculate_expected_shortfall(r, confidence_level, period_days) ==
    IF Len(r) < VAR_MIN_POINTS THEN FInt(0)
    ELSE LET var_quantile == FSub(FInt(1), confidence_level)
             var_threshold == Quantile(r, var_quantile)
             tail_returns == TailReturns(r, var_threshold)
         IN  IF Len(tail_returns) = 0 THEN FInt(0)
             ELSE LET mean == FDiv(FSumSeq(tail_returns), FInt(Len(tail_returns)))
                      es == FMul(FMul(mean, FInt(Sqrt(period_days))), FInt(100))
                  IN  FNeg(es)

-----------------------------------------------------------------------------
(* RiskMetrics.calculate_d_leverage *)

\* (the standard contract whatever contract_size is given)
RiskMetrics_calculate_d_leverage_StandardContract(positions_volume, account_equity, contract_size) ==
    IF account_equity <= 0 THEN FInt(0)
    ELSE FReduce(FDiv(FMul(positions_volume, FInt(100000)), FInt(account_equity)))

RiskMetrics_calculate_d_leverage(positions_volume, account_equity, contract_size) ==
    IF account_equity <= 0 THEN FInt(0)
    ELSE FReduce(FDiv(FMul(positions_volume, FInt(contract_size)), FInt(account_equity)))

-----------------------------------------------------------------------------
(* DataManager: the values check_alerts asks for *)

CONTRACT_SIZE == 100000

Account == account_info[1]
NoPositions == positions = None \/ positions[1] = <<>>

get_current_margin_percentage ==
    IF ~connected \/ account_info = None THEN FInt(0)
    ELSE IF Account.margin_free > 0
         THEN Frac(Account.margin * 100, Account.margin_free)
         ELSE FInt(0)

calculate_d_leverage ==
    IF ~connected \/ account_info = None \/ NoPositions THEN FInt(0)
    ELSE IF Account.equity > 0
         THEN Frac(SumOf(positions[1], "volume") * CONTRACT_SIZE, 100 * Account.equity)
         ELSE FInt(0)

calculate_positions_volatility_ok ==
    ~(~connected \/ account_info = None \/ NoPositions) /\ Account.equity > 0

\* positions_volatility * 1.65 * sqrt(22): the weighted volatility times the
\* portfolio ratio is the sum over the positions of exposure * volatility /
\* equity, kept per position in "var" (hundredths of a percent, scaled).
calculate_monthly_var ==
    IF ~connected THEN FInt(0)
    ELSE IF calculate_positions_volatility_ok
         THEN Frac(SumOf(positions[1], "var"), 100)
         ELSE FInt(0)

get_average_position_duration ==
    IF ~connected \/ NoPositions THEN FInt(0)
    ELSE Frac(SumOf(positions[1], "minutes"), Len(positions[1]))

-----------------------------------------------------------------------------
(* AlertsEngine *)

ALERTS_CAP == 50
OPTIMIZATIONS_CAP == 20
SCALPING_BELOW == 30
INTRADAY_BELOW == 60

\* s[-n:] of a Python list
PySliceLast(s, n) ==
    IF n = 0 \/ Len(s) <= n THEN s ELSE SubSeq(s, Len(s) - n + 1, Len(s))

create_alert(timestamp, alert_type, message, value) ==
    [ timestamp |-> timestamp, type |-> alert_type, message |-> message, value |-> value ]

\* The message is kept as the values interpolated into the text.
create_optimization(title, message) ==
    [ timestamp |-> now, title |-> title, message |-> message ]

calculate_daily_pnl ==
    IF account_info = None THEN FInt(0)
    ELSE IF NoPositions THEN FInt(0)
    ELSE Frac(SumOf(positions[1], "profit") * 100, Account.balance)

\* The thresholds check_alerts compares against: the ones load_thresholds stored.
EngineThresholds_FromConfig == cfg_thresholds

EngineThresholds == alert_thresholds

\* What one of the five checks adds: raised is TRUE when the code raises in it.
NoBreach == [ raised |-> FALSE, alerts |-> <<>>, opts |-> <<>> ]
Raised == [ raised |-> TRUE, alerts |-> <<>>, opts |-> <<>> ]

\* f"{margin_pct:.1f}%"
MarginValue_TwoDecimals(margin_pct) == FormatFixed(margin_pct, 2) \o "%"

MarginValue(margin_pct) == FormatFixed(margin_pct, 1) \o "%"

\* lines 76-85
CheckMargin ==
    LET margin_pct == get_current_margin_percentage IN
    IF FLess(EngineThresholds.margin_pct, margin_pct)
    THEN [ raised |-> FALSE,
           alerts |-> << create_alert(now, "RISQUE", "Niveau de marge élevé",
                                      MarginValue(margin_pct)) >>,
           opts |-> << create_optimization("RÉDUCTION DE MARGE",
                          << FormatFixed(margin_pct, 1), EngineThresholds.margin_pct >>) >> ]
    ELSE NoBreach

\* lines 96-104: the trading style for an average position duration
StyleOf(avg_duration) ==
    IF FLess(avg_duration, FInt(SCALPING_BELOW)) THEN "Scalping"
    ELSE IF FLess(avg_duration, FInt(INTRADAY_BELOW)) THEN "Intraday"
    ELSE "Swing"

StyleLabel(style) ==
    CASE style = "Scalping" -> "Scalping (<30min)"
      [] style = "Intraday" -> "Intraday (30-60min)"
      [] style = "Swing" -> "Swing (>60min)"

\* the key of TRADING_CATEGORIES[style] the code reads (lines 97, 100, 103)
TARGET_KEY == "max_d_leverage"

\* lines 87-113
CheckDLeverage ==
    LET d_leverage == calculate_d_leverage IN
    IF FLess(EngineThresholds.d_leverage, d_leverage)
    THEN LET alert == create_alert(now, "RISQUE", "D-Leverage élevé",
                                   FormatFixed(d_leverage, 2))
             avg_duration == get_average_position_duration
             style == StyleOf(avg_duration)
             target == DictGet(TRADING_CATEGORIES[style], TARGET_KEY)
         IN  IF target = None THEN Raised
             ELSE IF FLess(target[1], d_leverage)
             THEN LET reduction_needed ==
                          FScale(FDiv(FSub(d_leverage, target[1]), d_leverage), 100, 1)
                  IN  [ raised |-> FALSE, alerts |-> <<alert>>,
                        opts |-> << create_optimization("OPTIMISATION D-LEVERAGE",
                                      << FormatFixed(d_leverage, 2), target[1],
                                         FormatFixed(avg_duration, 0), StyleLabel(style),
                                         FormatFixed(reduction_needed, 1) >>) >> ]
             ELSE [ raised |-> FALSE, alerts |-> <<alert>>, opts |-> <<>> ]
    ELSE NoBreach

\* lines 115-124
CheckMonthlyVar ==
    LET monthly_var == calculate_monthly_var IN
    IF FLess(EngineThresholds.var_monthly, monthly_var)
    THEN [ raised |-> FALSE,
           alerts |-> << create_alert(now, "RISQUE", "VaR mensuelle élevée",
                                      FormatFixed(monthly_var, 2) \o "%") >>,
           opts |-> << create_optimization("RÉDUCTION DE LA VAR",
                          << FormatFixed(monthly_var, 2), EngineThresholds.var_monthly >>) >> ]
    ELSE NoBreach

\* lines 126-135
CheckDailyPnl ==
    LET daily_pnl == calculate_daily_pnl IN
    IF FLess(daily_pnl, EngineThresholds.daily_loss)
    THEN [ raised |-> FALSE,
           alerts |-> << create_alert(now, "RISQUE", "Perte journalière importante",
                                      FormatFixed(daily_pnl, 2) \o "%") >>,
           opts |-> << create_optimization("GESTION DE RISQUE QUOTIDIEN",
                          << FormatFixed(daily_pnl, 2), FAbs(EngineThresholds.daily_loss) >>) >> ]
    ELSE NoBreach

\* lines 137-150
CheckDrawdown ==
    IF equity_data # None /\ equity_data[1] # <<>>
    THEN LET current_drawdown == DrawdownAt(equity_data[1], Len(equity_data[1])) IN
         IF FLess(current_drawdown, EngineThresholds.drawdown)
         THEN [ raised |-> FALSE,
                alerts |-> << create_alert(now, "RISQUE", "Drawdown important",
                                           FormatFixed(current_drawdown, 2) \o "%") >>,
                opts |-> << create_optimization("GESTION DE DRAWDOWN",
                               << FormatFixed(current_drawdown, 2),
                                  FAbs(EngineThresholds.drawdown) >>) >> ]
         ELSE NoBreach
    ELSE NoBreach

\* line 71, "if not account_info"
AccountAbsent_Never == FALSE

AccountAbsent == account_info = None

\* The five checks in the order of the code.
FiveChecks == << CheckMargin, CheckDLeverage, CheckMonthlyVar, CheckDailyPnl, CheckDrawdown >>

RECURSIVE Concat(_, _)
Concat(parts, field) ==
    IF parts = <<>> THEN <<>> ELSE parts[1][field] \o Concat(Tail(parts), field)

\* (an exception keeps what the checks before it had created)
CheckOutcome_KeepsPartial ==
    IF ~connected THEN [ committed |-> FALSE, alerts |-> <<>>, opts |-> <<>> ]
    ELSE IF AccountAbsent THEN [ committed |-> FALSE, alerts |-> <<>>, opts |-> <<>> ]
    ELSE [ committed |-> TRUE,
           alerts |-> Concat(FiveChecks, "alerts"),
           opts |-> Concat(FiveChecks, "opts") ]

\* What a call of check_alerts computes: committed is TRUE when it reaches
\* lines 152-160, FALSE on the early returns and when an exception was caught.
CheckOutcome ==
    IF ~connected THEN [ committed |-> FALSE, alerts |-> <<>>, opts |-> <<>> ]
    ELSE IF AccountAbsent THEN [ committed |-> FALSE, alerts |-> <<>>, opts |-> <<>> ]
    ELSE IF \E k \in 1..Len(FiveChecks) : FiveChecks[k].raised
         THEN [ committed |-> FALSE, alerts |-> <<>>, opts |-> <<>> ]
         ELSE [ committed |-> TRUE,
                alerts |-> Concat(FiveChecks, "alerts"),
                opts |-> Concat(FiveChecks, "opts") ]

\* (keeps the first n records instead of the last n)
TrimHistory_KeepFirst(s, cap) == IF Len(s) <= cap THEN s ELSE SubSeq(s, 1, cap)

\* lines 157-158: self.alerts[-50:], self.optimizations[-20:]
TrimHistory(s, cap) == PySliceLast(s, cap)

-----------------------------------------------------------------------------
(* Inputs of the alert specifications *)

MaxCycles == 2          \* check_alerts calls in a run of Spec
MaxHistCycles == 14     \* check_alerts calls in a run of SpecHistory
HistDataPeriod == 5     \* SpecHistory: the broker data changes every so many calls

Acct(margin, margin_free) ==
    [ balance |-> 10000, equity |-> 10000, margin |-> margin, margin_free |-> margin_free ]

Pos(volume, profit, minutes, var) ==
    [ volume |-> volume, profit |-> profit, minutes |-> minutes, var |-> var ]

\* a failed fetch; margin 50.0%, 60.0%, 66.7%; no free margin
Accounts ==
    { None, Some(Acct(500, 1000)), Some(Acct(600, 1000)), Some(Acct(2000, 3000)),
      Some(Acct(600, 0)) }

\* D-Leverage 10, 12 and 17; daily P&L 0% and -6%; monthly VaR 5% and 13%;
\* scalping, intraday and swing durations
PositionLists ==
    { None, Some(<<>>),
      Some(<<Pos(100, 0, 10, 500)>>), Some(<<Pos(100, -600, 90, 500)>>),
      Some(<<Pos(100, 0, 45, 1300)>>), Some(<<Pos(100, -600, 10, 1300)>>),
      Some(<<Pos(120, 0, 45, 500)>>),
      Some(<<Pos(170, 0, 10, 500)>>), Some(<<Pos(170, -600, 90, 1300)>>),
      Some(<<Pos(100, -300, 20, 250), Pos(70, -300, 100, 250)>>) }

\* current drawdown 0%, -15% and -20%
EquityCurves == { Some(<<100, 100>>), Some(<<100, 85>>), Some(<<100, 80>>) }

TIGHT_ALERT_THRESHOLDS ==
    [ margin_pct |-> FInt(40), daily_loss |-> FInt(-3), drawdown |-> FInt(-10),
      d_leverage |-> FInt(10), var_monthly |-> FInt(10),
      correlation |-> <<8, 10>>, sector_concentration |-> FInt(30) ]

ThresholdChoices == { DEFAULT_ALERT_THRESHOLDS, TIGHT_ALERT_THRESHOLDS }

\* SpecHistory: four breaches a call, three breaches a call, a D-Leverage breach
HistAccounts == { Some(Acct(600, 1000)), Some(Acct(500, 1000)) }
HistPositionLists ==
    { Some(<<Pos(100, -600, 90, 1300)>>), Some(<<Pos(170, -600, 90, 1300)>>) }
HistEquityCurves == { Some(<<100, 80>>) }

-----------------------------------------------------------------------------
(* The state after construction: DataManager(), ConfigManager(), AlertsEngine() *)

\* DataManager's other caches and the connector
ManagerIdle ==
    /\ historical_deals = None
    /\ historical_orders = None
    /\ mt5_connected = FALSE
    /\ last_call = "none"

EmptyMetricsHistory ==
    [ sharpe |-> <<>>, sortino |-> <<>>, calmar |-> <<>>, max_drawdown |-> <<>> ]

EmptyDLeverageHistory == [ timestamp |-> <<>>, value |-> <<>>, avg_duration |-> <<>> ]

\* the widgets as constructed
WidgetIdle ==
    /\ risk_history = <<>>
    /\ metrics_history = EmptyMetricsHistory
    /\ d_leverage_history = EmptyDLeverageHistory
    /\ history_log = [ risk |-> <<>>, metrics |-> <<>>, d_leverage |-> <<>> ]

\* no monitoring: auto refresh off, no thread started
WindowIdle ==
    /\ auto_refresh_enabled = FALSE
    /\ threads = <<>>

CoreInit ==
    /\ connected = FALSE
    /\ account_info = None
    /\ positions = None
    /\ equity_data = None
    /\ now = 0
    /\ cfg_thresholds = DEFAULT_ALERT_THRESHOLDS
    /\ alert_thresholds = cfg_thresholds
    /\ alerts = <<>>
    /\ optimizations = <<>>
    /\ last_check = None
    /\ alerts_log = <<>>
    /\ optimizations_log = <<>>

AlertInit == CoreInit /\ ManagerIdle /\ WidgetIdle /\ WindowIdle

\* No stateless routine has been called; the arguments are at their defaults.
StatIdle ==
    /\ window = 30
    /\ metrics = <<>>
    /\ returns = <<>>
    /\ called = "none"
    /\ result = <<>>

DDIdle ==
    /\ equity_series = <<>>
    /\ threshold_pct = -5
    /\ dd_result = <<>>
    /\ dd_pc = "idle"
    /\ StatIdle

-----------------------------------------------------------------------------
(* DataManager operations *)

\* refresh_all_data once connected: every cached value is fetched again.  A
\* fetch that fails leaves None; calculate_equity_curve keeps the old curve
\* when there are no deals.
FetchAll(accts, poss, curves) ==
    /\ account_info' \in accts
    /\ positions' \in poss
    /\ equity_data' \in curves \cup {equity_data}

\* DataManager.connect_to_mt5
ConnectToMT5(accts, poss, curves) ==
    /\ \E success \in BOOLEAN :
          IF success
          THEN /\ connected' = TRUE
               /\ FetchAll(accts, poss, curves)
          ELSE UNCHANGED dataVars
    /\ last_check' = None
    /\ UNCHANGED <<now, cfg_thresholds, alert_thresholds, alerts,
                   optimizations, alerts_log, optimizations_log>>
    /\ UNCHANGED <<ddVars, appVars>>

\* DataManager.disconnect
Disconnect ==
    /\ connected' = FALSE
    /\ last_check' = None
    /\ UNCHANGED <<account_info, positions, equity_data>>
    /\ UNCHANGED <<now, cfg_thresholds, alert_thresholds, alerts,
                   optimizations, alerts_log, optimizations_log>>
    /\ UNCHANGED <<ddVars, appVars>>

\* DataManager.refresh_all_data
RefreshAllData(accts, poss, curves) ==
    IF ~connected THEN UNCHANGED vars
    ELSE /\ FetchAll(accts, poss, curves)
         /\ last_check' = None
         /\ UNCHANGED <<connected, now, cfg_thresholds, alert_thresholds,
                        alerts, optimizations, alerts_log, optimizations_log>>
         /\ UNCHANGED <<ddVars, appVars>>

-----------------------------------------------------------------------------
(* ConfigManager and AlertsEngine operations *)

\* ConfigManager.set_alert_thresholds: config["alert_thresholds"] is rebound to
\* the dict given.  No operation changes a thresholds dict in place, so a dict
\* is modelled by its value.
SetAlertThresholds ==
    /\ cfg_thresholds' \in ThresholdChoices \ {cfg_thresholds}
    /\ last_check' = None
    /\ UNCHANGED <<dataVars, now, alert_thresholds, alerts,
                   optimizations, alerts_log, optimizations_log>>
    /\ UNCHANGED <<ddVars, appVars>>

\* AlertsEngine.load_thresholds
LoadThresholds ==
    /\ alert_thresholds' = cfg_thresholds
    /\ last_check' = None
    /\ UNCHANGED <<dataVars, now, cfg_thresholds, alerts,
                   optimizations, alerts_log, optimizations_log>>
    /\ UNCHANGED <<ddVars, appVars>>

\* AlertsEngine.check_alerts.  The clock reads now during the call; the next
\* call comes at least a second later.
CheckAlerts(maxCycles) ==
    /\ now < maxCycles
    /\ now' = now + 1
    /\ LET out == CheckOutcome IN
       /\ last_check' = Some([ alerts |-> out.alerts, opts |-> out.opts ])
       /\ IF out.committed
          THEN /\ alerts' = TrimHistory(alerts \o out.alerts, ALERTS_CAP)
               /\ optimizations' = TrimHistory(optimizations \o out.opts, OPTIMIZATIONS_CAP)
               /\ alerts_log' = alerts_log \o out.alerts
               /\ optimizations_log' = optimizations_log \o out.opts
          ELSE UNCHANGED <<alerts, optimizations, alerts_log, optimizations_log>>
    /\ UNCHANGED <<dataVars, cfg_thresholds, alert_thresholds>>
    /\ UNCHANGED <<ddVars, appVars>>

-----------------------------------------------------------------------------
(* Spec: the data is fetched, then the engine runs its cycles on it, with    *)
(* disconnections and threshold changes in between; a refresh between the   *)
(* cycles brings the same data, or fails to fetch the account.              *)

Init == AlertInit /\ DDIdle

Connect ==
    /\ now = 0
    /\ ConnectToMT5(Accounts, PositionLists, EquityCurves)

Refresh ==
    IF now = 0
    THEN RefreshAllData(Accounts, PositionLists, EquityCurves)
    ELSE RefreshAllData({None, account_info}, {positions}, {equity_data})

Check == CheckAlerts(MaxCycles)

Next ==
    \/ Connect
    \/ Disconnect
    \/ Refresh
    \/ SetAlertThresholds
    \/ LoadThresholds
    \/ Check

Spec == Init /\ [][Next]_vars

(* SpecHistory: long runs of cycles, the thresholds left at their defaults;  *)
(* the broker data changes every HistDataPeriod cycles.                     *)

HistConnect ==
    /\ ~connected
    /\ ConnectToMT5(HistAccounts, HistPositionLists, HistEquityCurves)

HistRefresh ==
    /\ connected
    /\ now % HistDataPeriod = 0
    /\ RefreshAllData(HistAccounts, HistPositionLists, HistEquityCurves)

HistCheck == CheckAlerts(MaxHistCycles)

HistNext ==
    \/ HistConnect
    \/ HistRefresh
    \/ HistCheck

SpecHistory == Init /\ [][HistNext]_vars

(* SpecGet: get_alerts and get_optimizations called between the cycles.    *)

MaxGetCycles == 3
MaxCount == 3

\* count=None, or an integer count
Counts == {None} \cup { Some(c) : c \in 0..MaxCount }

\* lines 242-245 and 257-260: the list itself, or list[-count:]
LastOf(records, count) ==
    IF count = None THEN records ELSE PySliceLast(records, count[1])

GetCheck == CheckAlerts(MaxGetCycles)

GetAlerts ==
    /\ \E count \in Counts :
          /\ called' = "get_alerts"
          /\ result' = [ count |-> count, records |-> LastOf(alerts, count) ]
    /\ UNCHANGED <<alertVars, equity_series, threshold_pct, dd_result, dd_pc>>
    /\ UNCHANGED <<window, metrics, returns>>

GetOptimizations ==
    /\ \E count \in Counts :
          /\ called' = "get_optimizations"
          /\ result' = [ count |-> count, records |-> LastOf(optimizations, count) ]
    /\ UNCHANGED <<alertVars, equity_series, threshold_pct, dd_result, dd_pc>>
    /\ UNCHANGED <<window, metrics, returns>>

GetNext ==
    \/ HistConnect
    \/ GetCheck
    \/ GetAlerts
    \/ GetOptimizations

SpecGet == Init /\ [][GetNext]_vars

-----------------------------------------------------------------------------
(* SpecManager: the DataManager's operations called one by one, in any      *)
(* order, each fetch bringing one of a few broker answers.                   *)

\* calculate_equity_curve(days): the days of the curve
CurveDays == 2

Deal(time, profit) == [ time |-> time, profit |-> profit ]

\* a failed fetch, or a snapshot
ManagerAccounts == { None, Some(Acct(500, 1000)) }
ManagerPositionLists == { None, Some(<<>>), Some(<<Pos(100, 0, 10, 500)>>) }
\* a failed fetch, no deals, deals sorted by time
ManagerDeals ==
    { None, Some(<<>>), Some(<<Deal(0, 100), Deal(1, -50)>>), Some(<<Deal(2, 30)>>) }
ManagerOrders == { None, Some(<<>>), Some(<<"order">>) }

\* the sum of the first n profits
RECURSIVE CumSum(_, _)
CumSum(deals, n) == IF n = 0 THEN 0 ELSE deals[n].profit + CumSum(deals, n - 1)

\* lines 110-133: one value per day, the equity after the last deal up to it
EquityCurve(account, deals, days) ==
    LET initial_balance ==
            IF account # None THEN account[1].balance - CumSum(deals, Len(deals))
            ELSE CumSum(deals, Len(deals))
        UpTo(date) == { i \in 1..Len(deals) : deals[i].time <= date }
        Last(S) == CHOOSE i \in S : \A j \in S : j <= i
    IN  [ d \in 1..(days + 1) |->
            IF UpTo(d - 1) # {} THEN initial_balance + CumSum(deals, Last(UpTo(d - 1)))
            ELSE initial_balance ]

\* calculate_equity_curve while connected: the cache after the call
CurveAfter(account, deals, days) ==
    IF deals = None \/ deals[1] = <<>> THEN equity_data
    ELSE Some(EquityCurve(account, deals[1], days))

managerFrame ==
    <<now, cfg_thresholds, engineVars, widgetVars, windowVars,
      equity_series, threshold_pct, dd_result, dd_pc, window, metrics, returns>>

\* refresh_all_data while connected: the five steps of lines 58-62
RefreshFiveSteps ==
    \E a \in ManagerAccounts, p \in ManagerPositionLists,
       d \in ManagerDeals, o \in ManagerOrders :
        /\ account_info' = a
        /\ positions' = p
        /\ historical_deals' = d
        /\ historical_orders' = o
        /\ equity_data' = CurveAfter(a, d, CurveDays)

\* MT5Connector.connect returned (False, message): lines 30-32, 35-37, 41-44
\* and 50-52 leave self.connected alone, and connect_to_mt5 changes nothing.
ManagerConnectFailure ==
    UNCHANGED <<connected, account_info, positions, equity_data, historical_deals,
                historical_orders, mt5_connected>>

\* DataManager.connect_to_mt5
ManagerConnect ==
    /\ \E success \in BOOLEAN :
          /\ IF success
             THEN /\ mt5_connected' = TRUE
                  /\ connected' = TRUE
                  /\ RefreshFiveSteps
                  /\ last_call' = "connected"
             ELSE /\ ManagerConnectFailure
                  /\ last_call' = "failed"
          /\ called' = "connect_to_mt5"
          /\ result' = success
    /\ UNCHANGED managerFrame

\* DataManager.disconnect
ManagerDisconnect ==
    /\ mt5_connected' = FALSE
    /\ connected' = FALSE
    /\ last_call' = "disconnect"
    /\ called' = "disconnect"
    /\ result' = None
    /\ UNCHANGED <<account_info, positions, equity_data, historical_deals, historical_orders>>
    /\ UNCHANGED managerFrame

\* DataManager.refresh_all_data
ManagerRefreshAllData ==
    /\ called' = "refresh_all_data"
    /\ IF ~connected
       THEN /\ result' = FALSE
            /\ UNCHANGED <<account_info, positions, equity_data, historical_deals,
                           historical_orders>>
       ELSE /\ RefreshFiveSteps
            /\ result' = TRUE
    /\ UNCHANGED <<connected, mt5_connected, last_call>>
    /\ UNCHANGED managerFrame

\* DataManager.refresh_account_info
RefreshAccountInfo ==
    /\ called' = "refresh_account_info"
    /\ IF ~connected
       THEN /\ result' = None
            /\ UNCHANGED account_info
       ELSE \E a \in ManagerAccounts :
               /\ account_info' = a
               /\ result' = a
    /\ UNCHANGED <<connected, positions, equity_data, managerVars>>
    /\ UNCHANGED managerFrame

\* DataManager.refresh_positions
RefreshPositions ==
    /\ called' = "refresh_positions"
    /\ IF ~connected
       THEN /\ result' = None
            /\ UNCHANGED positions
       ELSE \E p \in ManagerPositionLists :
               /\ positions' = p
               /\ result' = p
    /\ UNCHANGED <<connected, account_info, equity_data, managerVars>>
    /\ UNCHANGED managerFrame

\* DataManager.refresh_historical_deals
RefreshHistoricalDeals ==
    /\ called' = "refresh_historical_deals"
    /\ IF ~connected
       THEN /\ result' = None
            /\ UNCHANGED historical_deals
       ELSE \E d \in ManagerDeals :
               /\ historical_deals' = d
               /\ result' = d
    /\ UNCHANGED <<dataVars, historical_orders, mt5_connected, last_call>>
    /\ UNCHANGED managerFrame

\* DataManager.refresh_historical_orders
RefreshHistoricalOrders ==
    /\ called' = "refresh_historical_orders"
    /\ IF ~connected
       THEN /\ result' = None
            /\ UNCHANGED historical_orders
       ELSE \E o \in ManagerOrders :
               /\ historical_orders' = o
               /\ result' = o
    /\ UNCHANGED <<dataVars, historical_deals, mt5_connected, last_call>>
    /\ UNCHANGED managerFrame

\* (the curve computed from the cached deals without the connection test)
CalculateEquityCurve_Unguarded ==
    /\ called' = "calculate_equity_curve"
    /\ IF historical_deals = None \/ historical_deals[1] = <<>>
       THEN /\ result' = None
            /\ UNCHANGED equity_data
       ELSE /\ equity_data' = CurveAfter(account_info, historical_deals, CurveDays)
            /\ result' = equity_data'
    /\ UNCHANGED <<connected, account_info, positions, managerVars>>
    /\ UNCHANGED managerFrame

\* DataManager.calculate_equity_curve
CalculateEquityCurve ==
    /\ called' = "calculate_equity_curve"
    /\ IF ~connected \/ historical_deals = None \/ historical_deals[1] = <<>>
       THEN /\ result' = None
            /\ UNCHANGED equity_data
       ELSE /\ equity_data' = CurveAfter(account_info, historical_deals, CurveDays)
            /\ result' = equity_data'
    /\ UNCHANGED <<connected, account_info, positions, managerVars>>
    /\ UNCHANGED managerFrame

ManagerNext ==
    \/ ManagerConnect
    \/ ManagerDisconnect
    \/ ManagerRefreshAllData
    \/ RefreshAccountInfo
    \/ RefreshPositions
    \/ RefreshHistoricalDeals
    \/ RefreshHistoricalOrders
    \/ CalculateEquityCurve

SpecManager == Init /\ [][ManagerNext]_vars

-----------------------------------------------------------------------------
(* SpecMonitor: the main window's auto-refresh toggle and the monitoring     *)
(* threads it starts, every thread taking its steps at its own speed.        *)

MaxThreads == 3         \* monitoring threads started in a run
RefreshInterval == 2    \* self.refresh_interval, in seconds

MonitorAccounts == { Some(Acct(500, 1000)) }
MonitorPositionLists == { Some(<<>>), Some(<<Pos(100, 0, 10, 500)>>) }
MonitorEquityCurves == { None }

\* threading.Thread(target=monitoring_thread, daemon=True).start(): the new
\* thread is about to test its while condition
StartedThread == [ pc |-> "while", remaining |-> 0 ]

\* start_background_monitoring with the flag as given
StartBackgroundMonitoring(enabled) ==
    IF enabled THEN threads' = Append(threads, StartedThread) ELSE UNCHANGED threads

\* MainWindow.__init__: the flag comes from the configuration
MonitorInit ==
    /\ CoreInit
    /\ ManagerIdle
    /\ WidgetIdle
    /\ DDIdle
    /\ auto_refresh_enabled \in BOOLEAN
    /\ threads = IF auto_refresh_enabled THEN <<StartedThread>> ELSE <<>>

MonitorConnect ==
    /\ ~connected
    /\ ConnectToMT5(MonitorAccounts, MonitorPositionLists, MonitorEquityCurves)

\* toggle_auto_refresh, called when the user flips the check button
ToggleAutoRefresh ==
    /\ auto_refresh_enabled \/ Len(threads) < MaxThreads
    /\ auto_refresh_enabled' = ~auto_refresh_enabled
    /\ StartBackgroundMonitoring(auto_refresh_enabled')
    /\ UNCHANGED <<dataVars, now, cfg_thresholds, engineVars, managerVars, widgetVars>>
    /\ UNCHANGED ddVars

\* monitoring_thread, "while self.auto_refresh_enabled": the test and, when it
\* holds, the refresh of lines 293-298
ThreadWhile(i) ==
    /\ threads[i].pc = "while"
    /\ IF auto_refresh_enabled
       THEN /\ threads' = [ threads EXCEPT ![i] = [ pc |-> "for", remaining |-> RefreshInterval ] ]
            /\ IF connected
               THEN /\ FetchAll(MonitorAccounts, MonitorPositionLists, MonitorEquityCurves)
                    /\ last_check' = None
                    /\ UNCHANGED connected
               ELSE UNCHANGED <<dataVars, last_check>>
       ELSE /\ threads' = [ threads EXCEPT ![i] = [ pc |-> "done", remaining |-> 0 ] ]
            /\ UNCHANGED <<dataVars, last_check>>
    /\ UNCHANGED <<now, cfg_thresholds, alert_thresholds, alerts, optimizations,
                   alerts_log, optimizations_log>>
    /\ UNCHANGED <<managerVars, widgetVars, auto_refresh_enabled>>
    /\ UNCHANGED ddVars

\* "for _ in range(self.refresh_interval): if not self.auto_refresh_enabled: break"
ThreadFor(i) ==
    /\ threads[i].pc = "for"
    /\ threads' =
          [ threads EXCEPT ![i].pc =
                IF threads[i].remaining = 0 \/ ~auto_refresh_enabled THEN "while" ELSE "sleep" ]
    /\ UNCHANGED <<dataVars, now, cfg_thresholds, engineVars, managerVars, widgetVars,
                   auto_refresh_enabled>>
    /\ UNCHANGED ddVars

\* time.sleep(1) returns
ThreadSleep(i) ==
    /\ threads[i].pc = "sleep"
    /\ threads' = [ threads EXCEPT ![i] = [ pc |-> "for", remaining |-> @.remaining - 1 ] ]
    /\ UNCHANGED <<dataVars, now, cfg_thresholds, engineVars, managerVars, widgetVars,
                   auto_refresh_enabled>>
    /\ UNCHANGED ddVars

\* one of the started threads takes its next step
MonitorWhile == \E i \in 1..Len(threads) : ThreadWhile(i)
MonitorFor == \E i \in 1..Len(threads) : ThreadFor(i)
MonitorSleep == \E i \in 1..Len(threads) : ThreadSleep(i)

MonitorNext ==
    \/ MonitorConnect
    \/ ToggleAutoRefresh
    \/ MonitorWhile
    \/ MonitorFor
    \/ MonitorSleep

SpecMonitor == MonitorInit /\ [][MonitorNext]_vars

-----------------------------------------------------------------------------
(* Inputs of the drawdown specification *)

MaxLen == 5
EquityValues == {-80, -50, 90, 95, 100, 101}
Thresholds == {-5, -10}

RECURSIVE SeqsUpTo(_, _)
SeqsUpTo(S, n) ==
    IF n = 0 THEN {<<>>}
    ELSE LET shorter == SeqsUpTo(S, n - 1) IN
         shorter \cup { Append(s, v) : s \in { t \in shorter : Len(t) = n - 1 }, v \in S }

DDInit ==
    /\ equity_series \in SeqsUpTo(EquityValues, MaxLen)
    /\ threshold_pct \in Thresholds
    /\ dd_result = <<>>
    /\ dd_pc = "input"
    /\ StatIdle
    /\ AlertInit

IdentifyDrawdowns ==
    /\ dd_pc = "input"
    /\ dd_pc' = "done"
    /\ dd_result' = identify_drawdowns(equity_series, threshold_pct)
    /\ UNCHANGED <<equity_series, threshold_pct, statVars>>
    /\ UNCHANGED alertVars

DDNext == IdentifyDrawdowns

SpecDrawdown == DDInit /\ [][DDNext]_vars

-----------------------------------------------------------------------------
(* SpecProfile: identify_drawdowns and analyze_drawdown_profile called on   *)
(* the same series, of lengths around the 10 points the profile requires.   *)

MaxProfileLen == 10
ProfileValues == {80, 90, 101}

ProfileSeries ==
    { s \in SeqsUpTo(ProfileValues, MaxProfileLen) : Len(s) >= MaxProfileLen - 1 }

\* 90 and 80 after 101 are drawdowns of different depths below the threshold
ProfileThresholds == {-10}

ProfileInit ==
    /\ equity_series \in ProfileSeries
    /\ threshold_pct \in ProfileThresholds
    /\ dd_result = <<>>
    /\ dd_pc = "input"
    /\ StatIdle
    /\ AlertInit

AnalyzeDrawdownProfile ==
    /\ dd_pc = "done"
    /\ called = "none"
    /\ called' = "analyze_drawdown_profile"
    /\ result' = analyze_drawdown_profile(equity_series, threshold_pct)
    /\ UNCHANGED <<equity_series, threshold_pct, dd_result, dd_pc, window, metrics, returns>>
    /\ UNCHANGED alertVars

ProfileNext ==
    \/ IdentifyDrawdowns
    \/ AnalyzeDrawdownProfile

SpecProfile == ProfileInit /\ [][ProfileNext]_vars

-----------------------------------------------------------------------------
(* SpecSeries: each routine over an equity series called on the same series. *)

MaxSeriesLen == 5
MaxTail == 3
SeriesValues == {-50, 80, 90, 100}
TailValues == {20, 100}
RollingWindows == {2, 4, 30}

\* a month of flat equity followed by a few moves
LongSeries ==
    { [ i \in 1..CHANGE_POINT_MIN_POINTS |-> 100 ] \o tail :
        tail \in SeqsUpTo(TailValues, MaxTail) }

SeriesInit ==
    /\ equity_series \in SeqsUpTo(SeriesValues, MaxSeriesLen) \cup LongSeries
    /\ threshold_pct = -10
    /\ window \in RollingWindows
    /\ dd_result = <<>>
    /\ dd_pc = "input"
    /\ metrics = <<>>
    /\ returns = <<>>
    /\ called = "none"
    /\ result = <<>>
    /\ AlertInit

CalculateDrawdown ==
    /\ called = "none"
    /\ called' = "calculate_drawdown"
    /\ result' = calculate_drawdown(equity_series)
    /\ UNCHANGED <<equity_series, threshold_pct, dd_result, dd_pc, window, metrics, returns>>
    /\ UNCHANGED alertVars

CalculateMaximumDrawdown ==
    /\ called = "none"
    /\ called' = "calculate_maximum_drawdown"
    /\ result' = calculate_maximum_drawdown(equity_series)
    /\ UNCHANGED <<equity_series, threshold_pct, dd_result, dd_pc, window, metrics, returns>>
    /\ UNCHANGED alertVars

FindChangePoints ==
    /\ called = "none"
    /\ called' = "find_change_points"
    /\ result' = find_change_points(equity_series, DEFAULT_SENSITIVITY)
    /\ UNCHANGED <<equity_series, threshold_pct, dd_result, dd_pc, window, metrics, returns>>
    /\ UNCHANGED alertVars

CalculateMetrics ==
    /\ called = "none"
    /\ called' = "calculate_metrics"
    /\ result' = calculate_metrics(equity_series)
    /\ UNCHANGED <<equity_series, threshold_pct, dd_result, dd_pc, window, metrics, returns>>
    /\ UNCHANGED alertVars

CalculateRollingMetrics ==
    /\ called = "none"
    /\ called' = "calculate_rolling_metrics"
    /\ result' = calculate_rolling_metrics(equity_series, window)
    /\ UNCHANGED <<equity_series, threshold_pct, dd_result, dd_pc, window, metrics, returns>>
    /\ UNCHANGED alertVars

SeriesNext ==
    \/ IdentifyDrawdowns
    \/ CalculateDrawdown
    \/ CalculateMaximumDrawdown
    \/ FindChangePoints
    \/ CalculateMetrics
    \/ CalculateRollingMetrics

SpecSeries == SeriesInit /\ [][SeriesNext]_vars

-----------------------------------------------------------------------------
(* SpecSharpe: calculate_sharpe_ratio called on a series of returns.         *)

MaxReturns == 4
\* -1 %, 0 and +1 % in millionths
ReturnValues == {-10000, 0, 10000}

SharpeInit ==
    /\ returns \in SeqsUpTo(ReturnValues, MaxReturns)
    /\ equity_series = <<>>
    /\ threshold_pct = -5
    /\ dd_result = <<>>
    /\ dd_pc = "idle"
    /\ window = 30
    /\ metrics = <<>>
    /\ called = "none"
    /\ result = <<>>
    /\ AlertInit

CalculateSharpeRatio ==
    /\ called = "none"
    /\ called' = "calculate_sharpe_ratio"
    /\ result' \in calculate_sharpe_ratio(returns)
    /\ UNCHANGED <<equity_series, threshold_pct, dd_result, dd_pc, window, metrics, returns>>
    /\ UNCHANGED alertVars

SharpeNext == CalculateSharpeRatio

SpecSharpe == SharpeInit /\ [][SharpeNext]_vars

-----------------------------------------------------------------------------
(* SpecInterpret: interpret_d_leverage called on a value and a duration.     *)

InterpretedValues ==
    { FInt(0), FInt(3), FInt(5), FInt(8), <<975, 100>>, FInt(10), FInt(13),
      <<1625, 100>>, FInt(20) }
NumberKinds == { "float", "float64" }
Durations == { None, Some(0), Some(29), Some(30), Some(59), Some(60), Some(120) }

InterpretInit ==
    /\ metrics \in [ d_leverage : InterpretedValues, kind : NumberKinds,
                     avg_position_duration : Durations ]
    /\ equity_series = <<>>
    /\ threshold_pct = -5
    /\ dd_result = <<>>
    /\ dd_pc = "idle"
    /\ window = 30
    /\ returns = <<>>
    /\ called = "none"
    /\ result = <<>>
    /\ AlertInit

InterpretDLeverage ==
    /\ called = "none"
    /\ called' = "interpret_d_leverage"
    /\ result' = interpret_d_leverage(metrics.d_leverage, metrics.kind,
                                      metrics.avg_position_duration)
    /\ UNCHANGED <<equity_series, threshold_pct, dd_result, dd_pc, window, metrics, returns>>
    /\ UNCHANGED alertVars

InterpretNext == InterpretDLeverage

SpecInterpret == InterpretInit /\ [][InterpretNext]_vars

-----------------------------------------------------------------------------
(* SpecVar: the historical VaR, then the expected shortfall, of the same     *)
(* returns at the same confidence level and period.                          *)

MaxVarReturns == 4
VarReturnValues == { <<-2, 100>>, <<-1, 100>>, <<1, 100>>, <<2, 100>> }
ConfidenceLevels == { <<95, 100>>, <<1, 2>> }
PeriodDays == { 1, 4 }

VarInit ==
    /\ returns \in SeqsUpTo(VarReturnValues, MaxVarReturns)
    /\ metrics \in [ confidence_level : ConfidenceLevels, period_days : PeriodDays ]
    /\ equity_series = <<>>
    /\ threshold_pct = -5
    /\ dd_result = <<>>
    /\ dd_pc = "idle"
    /\ window = 30
    /\ called = "none"
    /\ result = <<>>
    /\ AlertInit

CalculateVarByHistorical ==
    /\ called = "none"
    /\ called' = "calculate_var_by_historical"
    /\ result' = [ var |-> calculate_var_by_historical(returns, metrics.confidence_level,
                                                       metrics.period_days) ]
    /\ UNCHANGED <<equity_series, threshold_pct, dd_result, dd_pc, window, metrics, returns>>
    /\ UNCHANGED alertVars

CalculateExpectedShortfall ==
    /\ called = "calculate_var_by_historical"
    /\ called' = "calculate_expected_shortfall"
    /\ result' = [ var |-> result.var,
                   es |-> calculate_expected_shortfall(returns, metrics.confidence_level,
                                                       metrics.period_days) ]
    /\ UNCHANGED <<equity_series, threshold_pct, dd_result, dd_pc, window, metrics, returns>>
    /\ UNCHANGED alertVars

VarNext == CalculateVarByHistorical \/ CalculateExpectedShortfall

SpecVar == VarInit /\ [][VarNext]_vars

-----------------------------------------------------------------------------
(* SpecDLeverage: the two calculate_d_leverage routines, RiskMetrics' on its *)
(* arguments and DataManager's on the cached account and positions.          *)

Volumes == { FInt(0), <<1, 100>>, FInt(2), <<5, 2>> }
Equities == { -100, 0, 1000, 50000 }
ContractSizes == { 1000, 100000 }

\* equity 50000, 0 and -100
DLevAccounts ==
    { None,
      Some([ balance |-> 50000, equity |-> 50000, margin |-> 500, margin_free |-> 1000 ]),
      Some([ balance |-> 0, equity |-> 0, margin |-> 0, margin_free |-> 0 ]),
      Some([ balance |-> -100, equity |-> -100, margin |-> 0, margin_free |-> 0 ]) }

\* 2.00 lots; 0.50 and 1.50 lots
DLevPositionLists ==
    { None, Some(<<>>), Some(<<Pos(200, 0, 10, 500)>>),
      Some(<<Pos(50, 0, 10, 500), Pos(150, 0, 90, 500)>>) }

DLevInit ==
    /\ metrics \in [ positions_volume : Volumes, account_equity : Equities,
                     contract_size : ContractSizes ]
    /\ equity_series = <<>>
    /\ threshold_pct = -5
    /\ dd_result = <<>>
    /\ dd_pc = "idle"
    /\ window = 30
    /\ returns = <<>>
    /\ called = "none"
    /\ result = <<>>
    /\ AlertInit

DLevConnect ==
    /\ called = "none"
    /\ ~connected
    /\ ConnectToMT5(DLevAccounts, DLevPositionLists, {None})

DLevDisconnect ==
    /\ called = "none"
    /\ connected
    /\ Disconnect

RiskMetricsCalculateDLeverage ==
    /\ called = "none"
    /\ called' = "RiskMetrics.calculate_d_leverage"
    /\ result' = RiskMetrics_calculate_d_leverage(metrics.positions_volume,
                                                  metrics.account_equity, metrics.contract_size)
    /\ UNCHANGED <<equity_series, threshold_pct, dd_result, dd_pc, window, metrics, returns>>
    /\ UNCHANGED alertVars

DataManagerCalculateDLeverage ==
    /\ called = "none"
    /\ called' = "DataManager.calculate_d_leverage"
    /\ result' = calculate_d_leverage
    /\ UNCHANGED <<equity_series, threshold_pct, dd_result, dd_pc, window, metrics, returns>>
    /\ UNCHANGED alertVars

DLevNext ==
    \/ DLevConnect
    \/ DLevDisconnect
    \/ RiskMetricsCalculateDLeverage
    \/ DataManagerCalculateDLeverage

SpecDLeverage == DLevInit /\ [][DLevNext]_vars

-----------------------------------------------------------------------------
(* The history buffers of RiskScoreWidget, PerformanceWidget and             *)
(* DLeverageChartWidget.  A value a widget computes and appends is kept as   *)
(* the name of the value and the time of the update that computed it.        *)

RISK_HISTORY_CAP == 30
METRICS_HISTORY_CAP == 30
D_LEVERAGE_HISTORY_CAP == 1000

Sample(key, t) == <<key, t>>

\* (trims one entry more than the cap asks for)
TrimOver_OneLess(s, cap) == IF Len(s) > cap THEN PySliceLast(s, cap - 1) ELSE s

\* if len(history) > cap: history = history[-cap:]
TrimOver(s, cap) == IF Len(s) > cap THEN PySliceLast(s, cap) ELSE s

\* PerformanceWidget.update appends when calculate_metrics returns metrics
PerformanceAppends ==
    /\ connected
    /\ equity_data # None
    /\ calculate_metrics(equity_data[1]) # EmptyDict

\* PerformanceWidget.update, lines 129-140
PerformanceWidgetUpdate ==
    IF PerformanceAppends
    THEN /\ metrics_history' =
              [ sharpe |->
                    PySliceLast(Append(metrics_history.sharpe, Sample("sharpe_ratio", now)),
                                METRICS_HISTORY_CAP),
                sortino |->
                    PySliceLast(Append(metrics_history.sortino, Sample("sortino_ratio", now)),
                                METRICS_HISTORY_CAP),
                calmar |->
                    PySliceLast(Append(metrics_history.calmar, Sample("calmar_ratio", now)),
                                METRICS_HISTORY_CAP),
                max_drawdown |->
                    PySliceLast(Append(metrics_history.max_drawdown,
                                       Sample("max_drawdown", now)),
                                METRICS_HISTORY_CAP) ]
    ELSE UNCHANGED metrics_history

\* RiskScoreWidget.update: the append of lines 184-186 is skipped when the
\* widget is not connected or when collecting the metrics raised.
RiskScoreWidgetUpdate(raised) ==
    IF connected /\ ~raised
    THEN risk_history' = TrimOver(Append(risk_history, Sample("score", now)), RISK_HISTORY_CAP)
    ELSE UNCHANGED risk_history

\* DLeverageChartWidget.update, lines 113-124
DLeverageChartWidgetUpdate ==
    IF connected
    THEN LET appended ==
                 [ timestamp |-> Append(d_leverage_history.timestamp, now),
                   value |-> Append(d_leverage_history.value, calculate_d_leverage),
                   avg_duration |->
                       Append(d_leverage_history.avg_duration, get_average_position_duration) ]
         IN  d_leverage_history' =
                 IF Len(appended.timestamp) > D_LEVERAGE_HISTORY_CAP
                 THEN [ timestamp |-> PySliceLast(appended.timestamp, D_LEVERAGE_HISTORY_CAP),
                        value |-> PySliceLast(appended.value, D_LEVERAGE_HISTORY_CAP),
                        avg_duration |->
                            PySliceLast(appended.avg_duration, D_LEVERAGE_HISTORY_CAP) ]
                 ELSE appended
    ELSE UNCHANGED d_leverage_history

(* SpecWidgets: refresh cycles, one per second of the clock, between         *)
(* connections and disconnections.                                            *)

MaxRefreshCycles == 1002
\* the session connects and disconnects, and the collection of the risk
\* metrics raises, only during its first seconds
MaxSessionChanges == 2

WidgetAccounts == { Some(Acct(500, 1000)) }
WidgetPositionLists == { Some(<<Pos(100, 0, 10, 500)>>) }
\* no deals, so no equity curve; two points
WidgetEquityCurves == { None, Some(<<100, 85>>) }

WidgetConnect ==
    /\ now < MaxSessionChanges
    /\ ~connected
    /\ ConnectToMT5(WidgetAccounts, WidgetPositionLists, WidgetEquityCurves)

WidgetDisconnect ==
    /\ now < MaxSessionChanges
    /\ connected
    /\ Disconnect

\* The three widgets' update() calls of one refresh cycle, in the order of
\* MainWindow.update_ui.
RefreshCycle ==
    /\ now < MaxRefreshCycles
    /\ now' = now + 1
    /\ PerformanceWidgetUpdate
    /\ DLeverageChartWidgetUpdate
    /\ \E raised \in IF now < MaxSessionChanges THEN BOOLEAN ELSE {FALSE} :
          /\ RiskScoreWidgetUpdate(raised)
          /\ history_log' =
              [ risk |-> IF connected /\ ~raised THEN Append(history_log.risk, now)
                         ELSE history_log.risk,
                metrics |-> IF PerformanceAppends THEN Append(history_log.metrics, now)
                            ELSE history_log.metrics,
                d_leverage |-> IF connected THEN Append(history_log.d_leverage, now)
                               ELSE history_log.d_leverage ]
    /\ UNCHANGED <<dataVars, cfg_thresholds, engineVars, managerVars, windowVars>>
    /\ UNCHANGED ddVars

WidgetNext ==
    \/ WidgetConnect
    \/ WidgetDisconnect
    \/ RefreshCycle

SpecWidgets == Init /\ [][WidgetNext]_vars

-----------------------------------------------------------------------------
(* SpecRiskScore: calculate_global_risk_score called on a metrics map.      *)

DLeverageChoices == { FInt(0), FInt(5), FInt(12), FInt(20), FInt(30) }
StyleChoices == { "scalping", "intraday", "swing" }
VarChoices == { FInt(0), FInt(7), FInt(12), FInt(20), FInt(30) }
MaxDrawdownChoices == { FInt(0), FInt(-10), FInt(-20), FInt(-30), FInt(-50) }
MarginChoices == { FInt(0), FInt(30), FInt(60), FInt(80), FInt(95) }
ConcentrationChoices == { FInt(0), <<1, 2>>, FInt(1), <<3, 2>> }
VolatilityChoices == { FInt(0), FInt(15), FInt(25), FInt(40), FInt(60) }

FullMetrics ==
    { [ d_leverage |-> d, trading_style |-> st, var_monthly |-> v, max_drawdown |-> dd,
        margin_pct |-> mg, concentration |-> c, volatility |-> vol ] :
      d \in DLeverageChoices, st \in StyleChoices, v \in VarChoices,
      dd \in MaxDrawdownChoices, mg \in MarginChoices, c \in ConcentrationChoices,
      vol \in VolatilityChoices }

\* the calmest and the riskiest map
BaseMetrics ==
    { [ d_leverage |-> FInt(0), trading_style |-> "swing", var_monthly |-> FInt(0),
        max_drawdown |-> FInt(0), margin_pct |-> FInt(0), concentration |-> FInt(0),
        volatility |-> FInt(0) ],
      [ d_leverage |-> FInt(30), trading_style |-> "scalping", var_monthly |-> FInt(30),
        max_drawdown |-> FInt(-50), margin_pct |-> FInt(95), concentration |-> FInt(1),
        volatility |-> FInt(60) ] }

\* maps with some of the required keys missing
PartialMetrics ==
    { [ k \in keys |-> m[k] ] : keys \in (SUBSET REQUIRED_KEYS) \ {REQUIRED_KEYS},
                                m \in BaseMetrics }

RiskInit ==
    /\ metrics \in FullMetrics \cup PartialMetrics
    /\ equity_series = <<>>
    /\ threshold_pct = -5
    /\ dd_result = <<>>
    /\ dd_pc = "idle"
    /\ window = 30
    /\ returns = <<>>
    /\ called = "none"
    /\ result = <<>>
    /\ AlertInit

CalculateGlobalRiskScore ==
    /\ called = "none"
    /\ called' = "calculate_global_risk_score"
    /\ result' = calculate_global_risk_score(metrics)
    /\ UNCHANGED <<equity_series, threshold_pct, dd_result, dd_pc, window, metrics, returns>>
    /\ UNCHANGED alertVars

RiskNext == CalculateGlobalRiskScore

SpecRiskScore == RiskInit /\ [][RiskNext]_vars

-----------------------------------------------------------------------------
(* Properties of check_alerts *)

\* What the last check_alerts call returned; the state it ran in is the
\* current one, but for the clock.
Returned == last_check[1]
Evaluated == last_check # None /\ connected /\ account_info # None

MARGIN_MESSAGE == "Niveau de marge élevé"
D_LEVERAGE_MESSAGE == "D-Leverage élevé"
VAR_MESSAGE == "VaR mensuelle élevée"
DAILY_PNL_MESSAGE == "Perte journalière importante"
DRAWDOWN_MESSAGE == "Drawdown important"

\* The conditions that breach the thresholds th in the current snapshot.
MarginBreach(th) == FLess(th.margin_pct, get_current_margin_percentage)
DLeverageBreach(th) == FLess(th.d_leverage, calculate_d_leverage)
VarBreach(th) == FLess(th.var_monthly, calculate_monthly_var)
DailyPnlBreach(th) == FLess(calculate_daily_pnl, th.daily_loss)
DrawdownBreach(th) ==
    /\ equity_data # None
    /\ equity_data[1] # <<>>
    /\ FLess(DrawdownAt(equity_data[1], Len(equity_data[1])), th.drawdown)

Breaches(th) ==
    (IF MarginBreach(th) THEN {MARGIN_MESSAGE} ELSE {})
    \cup (IF DLeverageBreach(th) THEN {D_LEVERAGE_MESSAGE} ELSE {})
    \cup (IF VarBreach(th) THEN {VAR_MESSAGE} ELSE {})
    \cup (IF DailyPnlBreach(th) THEN {DAILY_PNL_MESSAGE} ELSE {})
    \cup (IF DrawdownBreach(th) THEN {DRAWDOWN_MESSAGE} ELSE {})

CountAlerts(records, message) ==
    Cardinality({ i \in 1..Len(records) : records[i].message = message })

MessagesOf(records) == { records[i].message : i \in 1..Len(records) }

LastRecords(s, n) == IF Len(s) <= n THEN s ELSE SubSeq(s, Len(s) - n + 1, Len(s))

Min(a, b) == IF a <= b THEN a ELSE b

\* C1: after any sequence of check_alerts calls the alert history holds at
\* most 50 records and the optimization history at most 20, and they are the
\* most recent 50 / 20 records the calls returned, oldest first.
C1_HistoryCapped ==
    /\ Len(alerts) <= 50
    /\ Len(optimizations) <= 20
    /\ alerts = LastRecords(alerts_log, 50)
    /\ optimizations = LastRecords(optimizations_log, 20)

\* More than 50 alerts have been returned, from calls with different breaches.
C1_Witness ==
    /\ Len(alerts_log) > 50
    /\ Len(optimizations_log) > 20
    /\ Len(alerts) = 50
    /\ Len(optimizations) = 20
    /\ alerts[1].message # MARGIN_MESSAGE
    /\ Cardinality(MessagesOf(alerts_log)) = 4

\* The style-specific target: the optimal maximum of the style the average
\* position duration selects.
StyleTarget == TRADING_CATEGORIES[StyleOf(get_average_position_duration)]["optimal_max"]

ReductionNeeded ==
    FScale(FDiv(FSub(calculate_d_leverage, StyleTarget), calculate_d_leverage), 100, 1)

\* C2: when D-Leverage exceeds the d_leverage threshold (connected, account
\* present), check_alerts returns a D-Leverage alert and records it in the
\* alert history; when D-Leverage also exceeds the style's target, the
\* suggestion returned with it carries the volume reduction needed.
C2_DLeverageAlert ==
    (Evaluated /\ DLeverageBreach(alert_thresholds)) =>
        /\ CountAlerts(Returned.alerts, D_LEVERAGE_MESSAGE) = 1
        /\ \E i \in 1..Len(alerts) :
              /\ alerts[i].message = D_LEVERAGE_MESSAGE
              /\ alerts[i].timestamp = now - 1
        /\ FLess(StyleTarget, calculate_d_leverage) =>
              \E j \in 1..Len(Returned.opts) :
                  /\ Returned.opts[j].title = "OPTIMISATION D-LEVERAGE"
                  /\ Returned.opts[j].message[5] = FormatFixed(ReductionNeeded, 1)

\* C3: the five conditions are evaluated independently: for a connected
\* snapshot with an account, the alerts returned are exactly one per condition
\* that breaches its threshold, whichever other conditions breach.
C3_IndependentConditions ==
    Evaluated =>
        /\ MessagesOf(Returned.alerts) = Breaches(alert_thresholds)
        /\ Len(Returned.alerts) = Cardinality(Breaches(alert_thresholds))

NothingReturned == Some([ alerts |-> <<>>, opts |-> <<>> ])

\* C4: a check_alerts call made while the data manager is disconnected, or
\* connected without an account snapshot, returns two empty lists and leaves
\* both histories as they were.
C4_NoAccountNoAlert ==
    [][ (now' # now /\ (~connected \/ account_info = None)) =>
            /\ last_check' = NothingReturned
            /\ alerts' = alerts
            /\ optimizations' = optimizations ]_vars

\* A call made once the account snapshot is lost, with a drawdown breach in
\* the cached curve and alerts of an earlier call in the history.
C4_Witness ==
    /\ connected
    /\ account_info = None
    /\ last_check = NothingReturned
    /\ alerts # <<>>
    /\ optimizations # <<>>
    /\ DrawdownBreach(alert_thresholds)

OnlyMarginBreaches == Breaches(alert_thresholds) = {MARGIN_MESSAGE}

\* C5: when the margin percentage is above its threshold and no other
\* condition breaches, check_alerts returns exactly one alert, of the risk
\* category, whose value is the percentage with one decimal ("60.0%" for a
\* margin of 60 against a threshold of 50), and exactly one suggestion.
C5_MarginOnly ==
    (Evaluated /\ OnlyMarginBreaches) =>
        /\ Len(Returned.alerts) = 1
        /\ Returned.alerts[1].type = "RISQUE"
        /\ Returned.alerts[1].message = MARGIN_MESSAGE
        /\ Returned.alerts[1].value = FormatFixed(get_current_margin_percentage, 1) \o "%"
        /\ Len(Returned.opts) = 1
        /\ (Account.margin = 600 /\ Account.margin_free = 1000) =>
              Returned.alerts[1].value = "60.0%"

\* A margin of 60% against the threshold of 50, nothing else breaching.
C5_Witness ==
    /\ Evaluated
    /\ OnlyMarginBreaches
    /\ FEq(get_current_margin_percentage, FInt(60))
    /\ alert_thresholds.margin_pct = FInt(50)
    /\ Len(Returned.alerts) = 1
    /\ Returned.alerts[1].value = "60.0%"

\* C6: no deduplication: every call in an unchanged breaching state returns
\* one alert per breached condition and the alert history grows by as many
\* records, until the cap of 50.
C6_NoDeduplication ==
    [][ (now' # now /\ connected /\ account_info # None) =>
            /\ MessagesOf(last_check'[1].alerts) = Breaches(alert_thresholds)
            /\ Len(alerts') =
                  Min(50, Len(alerts) + Cardinality(Breaches(alert_thresholds))) ]_vars

\* The alerts a completed call returns under the thresholds th.
ComparesAgainst(th) ==
    Evaluated =>
        IF DLeverageBreach(th)
        THEN Returned.alerts = <<>>
        ELSE /\ MessagesOf(Returned.alerts) = Breaches(th)
             /\ Len(Returned.alerts) = Cardinality(Breaches(th))

\* C7: check_alerts compares against the thresholds of the configuration as
\* they are at the call: after set_alert_thresholds between two calls the
\* second call uses the new thresholds, without a reload.
C7_ReadsConfigEachCycle ==
    DLeverageBreach(cfg_thresholds) \/
        (Evaluated => MessagesOf(Returned.alerts) = Breaches(cfg_thresholds))

\* C7, amended: check_alerts compares against the thresholds the engine
\* copied at construction or at its last load_thresholds; thresholds set in
\* the configuration since then have no effect on the call.  (A call whose
\* D-Leverage is above the copied threshold returns nothing.)
C7_ComparesAgainstLoaded ==
    ComparesAgainst(alert_thresholds)

\* Two calls with set_alert_thresholds and no reload in between: the second
\* call reports nothing where the thresholds of the configuration are breached.
C7_Witness ==
    /\ Evaluated
    /\ now = 2
    /\ cfg_thresholds # alert_thresholds
    /\ ~DLeverageBreach(cfg_thresholds)
    /\ Breaches(cfg_thresholds) # {}
    /\ Breaches(alert_thresholds) = {}
    /\ Returned.alerts = <<>>
    /\ alerts = <<>>

-----------------------------------------------------------------------------
(* Properties of identify_drawdowns *)

Called == dd_pc = "done"
Episodes == { dd_result[k] : k \in 1..Len(dd_result) }
IsActive(e) == "active" \in DOMAIN e /\ e.active = TRUE
PosOf(date) == date + 1

\* The equity at the episode's start date is the running maximum the trough
\* is measured against: the start is an equity peak preceding the decline.
StartsAtPeak(e) ==
    equity_series[PosOf(e.start_date)] = CumMax(equity_series, PosOf(e.bottom_date))

\* drawdown_amount_pct is the peak-to-trough percentage change.
AmountIsPeakToTrough(e) ==
    FEq(e.drawdown_amount_pct, DrawdownAt(equity_series, PosOf(e.bottom_date)))

ExampleSeries == <<100, 95, 90, 95, 101>>

\* C8: every completed episode starts at the equity peak preceding the decline
\* and reports the peak-to-trough percentage as drawdown_amount_pct; the series
\* [100,95,90,95,101] with threshold -5 gives one completed episode with peak
\* at index 0, trough at index 2, recovery at index 4 and amount -10.
C8_StartIsPeak ==
    Called =>
        /\ \A e \in Episodes :
              e.end_date # None => StartsAtPeak(e) /\ AmountIsPeakToTrough(e)
        /\ (equity_series = ExampleSeries /\ threshold_pct = -5) =>
              /\ Len(dd_result) = 1
              /\ dd_result[1].start_date = 0
              /\ dd_result[1].bottom_date = 2
              /\ dd_result[1].end_date = Some(4)
              /\ FEq(dd_result[1].drawdown_amount_pct, FInt(-10))

\* C9: every episode has start date <= trough date, trough date <= recovery
\* date when a recovery date is present, and drawdown_amount_pct <= 0.
C9_EpisodeOrderAndSign ==
    Called =>
        \A e \in Episodes :
            /\ e.start_date <= e.bottom_date
            /\ (e.end_date # None => e.bottom_date <= e.end_date[1])
            /\ FLeq(e.drawdown_amount_pct, FInt(0))

\* The series ends in drawdown: some point lies strictly below the threshold
\* and no later point is back at a drawdown of 0 or more.
EndsInDrawdown ==
    \E i \in 1..Len(equity_series) :
        /\ FLess(DrawdownAt(equity_series, i), FInt(threshold_pct))
        /\ \A j \in (i + 1)..Len(equity_series) : DrawdownAt(equity_series, j)[1] < 0

ActiveEpisodes == { k \in 1..Len(dd_result) : IsActive(dd_result[k]) }

TouchesThresholdOnly ==
    /\ \E i \in 1..Len(equity_series) :
          FEq(DrawdownAt(equity_series, i), FInt(threshold_pct))
    /\ \A i \in 1..Len(equity_series) :
          ~FLess(DrawdownAt(equity_series, i), FInt(threshold_pct))

\* C11: an episode is opened only by a drawdown strictly below the threshold:
\* a series whose drawdown reaches the threshold but never goes below it
\* gives an empty list, and every episode's maximum drawdown is below the
\* threshold.
C11_StrictThreshold ==
    Called =>
        /\ TouchesThresholdOnly => dd_result = <<>>
        /\ \A e \in Episodes : FLess(e.max_drawdown_pct, FInt(threshold_pct))

\* A series long enough to be analysed that touches the threshold.
C11_Witness ==
    /\ Called
    /\ Len(equity_series) >= MIN_POINTS
    /\ TouchesThresholdOnly
    /\ dd_result = <<>>

\* C12: the list returned is ordered by max_drawdown_pct ascending, the most
\* severe episode first, with or without an active episode.
C12_SortedAscending ==
    Called =>
        \A k \in 1..(Len(dd_result) - 1) :
            FLeq(dd_result[k].max_drawdown_pct, dd_result[k + 1].max_drawdown_pct)

\* The active episode, found last, is the most severe and comes first.
C12_Witness ==
    /\ Called
    /\ Len(dd_result) = 2
    /\ IsActive(dd_result[1])
    /\ FLess(dd_result[1].max_drawdown_pct, dd_result[2].max_drawdown_pct)

-----------------------------------------------------------------------------
(* Properties of analyze_drawdown_profile *)

Profiled == called = "analyze_drawdown_profile"

\* The episodes of the profile: none when it returns the empty dict.
ProfileDrawdowns == IF result = EmptyDict THEN <<>> ELSE result.drawdowns

\* The start date and the maximum drawdown of every episode of a list.
StartsAndDepths(episodes, start, depth) ==
    { <<episodes[k][start], FReduce(episodes[k][depth])>> : k \in 1..Len(episodes) }

SameEpisodes ==
    /\ Len(ProfileDrawdowns) = Len(dd_result)
    /\ StartsAndDepths(ProfileDrawdowns, "start", "max_drawdown")
          = StartsAndDepths(dd_result, "start_date", "max_drawdown_pct")

\* C13 as stated: for every series and threshold analyze_drawdown_profile and
\* identify_drawdowns find the same number of episodes, with the same start
\* dates and the same maximum drawdown per episode.
C13_SameSegmentation ==
    Profiled => SameEpisodes

\* C13 as amended: on a series of at least 10 points the two routines find the
\* same episodes (same number, start dates and maximum drawdowns), which
\* analyze_drawdown_profile lists in the order found and identify_drawdowns
\* by severity; on a shorter series analyze_drawdown_profile returns the empty
\* dict, whatever identify_drawdowns finds.
C13_SameSegmentationFromTenPoints ==
    Profiled =>
        IF Len(equity_series) >= PROFILE_MIN_POINTS
        THEN /\ result # EmptyDict
             /\ result.count = Len(dd_result)
             /\ SameEpisodes
        ELSE result = EmptyDict

\* Two episodes found by both routines, listed in different orders.
C13_Witness ==
    /\ Profiled
    /\ Len(equity_series) >= PROFILE_MIN_POINTS
    /\ Len(dd_result) = 2
    /\ result.count = 2
    /\ result.drawdowns[1].start # dd_result[1].start_date

-----------------------------------------------------------------------------
(* Properties of calculate_global_risk_score *)

Scored == called = "calculate_global_risk_score"
HasAllKeys == REQUIRED_KEYS \subseteq DOMAIN metrics

\* C14: when any of the seven required keys is missing the routine returns the
\* neutral default (score 50, rating indeterminate, no component details),
\* never a partially computed score.
C14_MissingKeyNeutral ==
    (Scored /\ ~HasAllKeys) =>
        /\ result.score = 50
        /\ result.rating = "Indéterminé"
        /\ result.details = EmptyDict
        /\ result.color = "gray"

\* One key is missing from a map whose other metrics are at their riskiest.
C14_Witness ==
    /\ Scored
    /\ Cardinality(REQUIRED_KEYS \ DOMAIN metrics) = 1
    /\ "d_leverage" \in DOMAIN metrics
    /\ metrics["d_leverage"] = FInt(30)
    /\ result.score = 50

InPercentRange(x) == FLeq(FInt(0), x) /\ FLeq(x, FInt(100))

BandOf(score) ==
    IF score < 20 THEN "Très faible"
    ELSE IF score <= 39 THEN "Faible"
    ELSE IF score <= 59 THEN "Modéré"
    ELSE IF score <= 79 THEN "Élevé"
    ELSE "Extrême"

BandColor ==
    [ r \in { "Très faible", "Faible", "Modéré", "Élevé", "Extrême" } |->
        CASE r = "Très faible" -> "#0070C0"
          [] r = "Faible" -> "#00B050"
          [] r = "Modéré" -> "#FFC000"
          [] r = "Élevé" -> "#FF6600"
          [] r = "Extrême" -> "#C00000" ]

\* C16: the rating and the color of a computed result depend on the rounded
\* composite score alone: below 20 very low, 20..39 low, 40..59 moderate,
\* 60..79 high, 80 and above extreme, each band with its own color.
C16_RatingBands ==
    (Scored /\ HasAllKeys) =>
        /\ result.rating = BandOf(result.score)
        /\ result.color = BandColor[result.rating]

\* A score on the lower edge of a band.
C16_Witness ==
    /\ Scored
    /\ HasAllKeys
    /\ result.score \in {20, 40, 60, 80}
    /\ result.rating = BandOf(result.score)

-----------------------------------------------------------------------------
(* Properties of the routines over one equity series *)

AllPositive == \A i \in 1..Len(equity_series) : equity_series[i] > 0

\* the largest equity of the points 1..i
RunningMax(i) ==
    CHOOSE m \in { equity_series[j] : j \in 1..i } :
        \A j \in 1..i : equity_series[j] <= m

\* C17: for every non-empty equity series with all-positive values
\* calculate_drawdown returns a series of the same length whose every value is
\* <= 0 and is 0 wherever the equity equals its running maximum.
C17_DrawdownNonPositive ==
    (called = "calculate_drawdown" /\ equity_series # <<>> /\ AllPositive) =>
        /\ Len(result) = Len(equity_series)
        /\ \A i \in 1..Len(equity_series) :
              /\ FLeq(result[i], FInt(0))
              /\ equity_series[i] = RunningMax(i) => FEq(result[i], FInt(0))

\* A series that falls, then makes a new high.
C17_Witness ==
    /\ called = "calculate_drawdown"
    /\ AllPositive
    /\ Len(equity_series) >= 3
    /\ \E i \in 1..Len(equity_series) : \E j \in (i + 1)..Len(equity_series) :
          /\ i > 1
          /\ FLess(result[i], FInt(0))
          /\ equity_series[j] > RunningMax(i)
          /\ FEq(result[j], FInt(0))

\* the drawdown of point i: its distance below the running maximum, in percent
DrawdownOf(i) == Frac((equity_series[i] - RunningMax(i)) * 100, RunningMax(i))

\* C18: calculate_maximum_drawdown returns as trough the date of the global
\* minimum of the drawdown series, as peak the latest date at or before the
\* trough at which the equity equals its running maximum, and as duration the
\* days from that peak to the trough.
C18_PeakImmediatelyPrecedesTrough ==
    (called = "calculate_maximum_drawdown" /\ Len(equity_series) >= 2 /\ AllPositive) =>
        LET trough == PosOf(result.max_drawdown_idx[1])
            peak == PosOf(result.peak_idx[1])
        IN  /\ \A i \in 1..Len(equity_series) : FLeq(DrawdownOf(trough), DrawdownOf(i))
            /\ peak <= trough
            /\ equity_series[peak] = RunningMax(peak)
            /\ \A i \in (peak + 1)..trough : equity_series[i] # RunningMax(i)
            /\ result.duration_days = DateOf(trough) - DateOf(peak)

\* The same statement for the series whose running maximum is reached only once
\* before the trough.
C18_PeakWhenReachedOnce ==
    (/\ called = "calculate_maximum_drawdown"
     /\ Len(equity_series) >= 2
     /\ AllPositive
     /\ LET trough == PosOf(result.max_drawdown_idx[1]) IN
        Cardinality({ i \in 1..trough : equity_series[i] = RunningMax(trough) }) = 1)
    => LET trough == PosOf(result.max_drawdown_idx[1])
           peak == PosOf(result.peak_idx[1])
       IN  /\ \A i \in 1..Len(equity_series) : FLeq(DrawdownOf(trough), DrawdownOf(i))
           /\ peak <= trough
           /\ equity_series[peak] = RunningMax(peak)
           /\ \A i \in (peak + 1)..trough : equity_series[i] # RunningMax(i)
           /\ result.duration_days = DateOf(trough) - DateOf(peak)

\* C19: a routine given fewer points than it requires returns its empty value:
\* identify_drawdowns [] below 5 points, find_change_points [] below 30,
\* calculate_metrics {} below 2, calculate_rolling_metrics {} below window + 1.
C19_InsufficientDataEmpty ==
    /\ (Called /\ Len(equity_series) < 5) => dd_result = <<>>
    /\ (called = "find_change_points" /\ Len(equity_series) < 30) => result = <<>>
    /\ (called = "calculate_metrics" /\ Len(equity_series) < 2) => result = EmptyDict
    /\ (called = "calculate_rolling_metrics" /\ Len(equity_series) < window + 1)
          => result = EmptyDict

\* The routines do return something once they have enough points.
C19_EnoughData ==
    /\ Called /\ Len(equity_series) = 5 /\ dd_result # <<>>
    /\ called = "calculate_metrics" /\ result # EmptyDict

C19_ChangePointFound ==
    called = "find_change_points" /\ Len(equity_series) > 30 /\ result # <<>>

C19_RollingComputed ==
    /\ called = "calculate_rolling_metrics"
    /\ Len(equity_series) = window + 1
    /\ result # EmptyDict

\* A series one point short for calculate_metrics, and short for identify_drawdowns.
C19_Witness ==
    /\ Called
    /\ Len(equity_series) = 1
    /\ dd_result = <<>>
    /\ called = "calculate_metrics"
    /\ result = EmptyDict

-----------------------------------------------------------------------------
(* Properties of calculate_sharpe_ratio *)

\* the standard deviation of the excess returns is zero or undefined
DegenerateDeviation == Len(returns) = 1 \/ (Len(returns) >= 2 /\ IsConstant(returns))

\* C20: calculate_sharpe_ratio returns 0 on empty input, and also 0 (never NaN
\* or infinity) when the standard deviation of the excess returns is zero or
\* undefined: a constant return series, a single return.
C20_ZeroWhenDegenerate ==
    (called = "calculate_sharpe_ratio" /\ (returns = <<>> \/ DegenerateDeviation))
        => result = Zero

\* The part of the statement about the empty input.
C20_ZeroOnEmpty ==
    (called = "calculate_sharpe_ratio" /\ returns = <<>>) => result = Zero

C20_EmptyCalled == called = "calculate_sharpe_ratio" /\ returns = <<>>

-----------------------------------------------------------------------------
(* Properties of interpret_d_leverage *)

Interpreted == called = "interpret_d_leverage"

\* the style the claim gives for a duration, with its two thresholds
ClaimedStyle ==
    LET d == metrics.avg_position_duration IN
    IF d # None /\ d[1] < 30 THEN "Scalping"
    ELSE IF d # None /\ d[1] < 60 THEN "Intraday" ELSE "Swing"

ClaimedRating ==
    LET band == TRADING_CATEGORIES[ClaimedStyle] IN
    IF FLess(metrics.d_leverage, band["sous-optimal"]) THEN "Sous-optimal"
    ELSE IF FLeq(metrics.d_leverage, band["optimal_max"]) THEN "Optimal"
    ELSE "Excessif"

StructuredRecord ==
    /\ {"rating", "interpretation", "recommendations", "color"} \subseteq DOMAIN result
    /\ result.rating = ClaimedRating

\* C21: for every D-Leverage value >= 0 and every average position duration
\* interpret_d_leverage returns a record (rating, interpretation,
\* recommendations, color) whose rating is Sous-optimal below the style's
\* sub-optimal threshold, Optimal within the band and Excessif above it, the
\* style being Scalping below 30 minutes, Intraday below 60 and Swing otherwise.
C21_StructuredRating ==
    (Interpreted /\ FLeq(FInt(0), metrics.d_leverage)) => StructuredRecord

\* The same statement for the values above zero.
C21_StructuredRatingAboveZero ==
    (Interpreted /\ FLess(FInt(0), metrics.d_leverage)) => StructuredRecord

C21_AboveZeroCalled ==
    /\ Interpreted
    /\ metrics.d_leverage = FInt(3)
    /\ metrics.avg_position_duration = Some(30)
    /\ result.rating = "Sous-optimal"

-----------------------------------------------------------------------------
(* Properties of calculate_expected_shortfall *)

BothComputed == called = "calculate_expected_shortfall" /\ Len(returns) >= 2

-----------------------------------------------------------------------------
(* Properties of calculate_d_leverage *)

\* equal as numbers
SameValue(a, b) == FReduce(a) = FReduce(b)

\* (volume * contract_size) / equity
DLeverageFormula(volume, contract_size, equity) ==
    <<volume[1] * contract_size, volume[2] * equity>>

\* the summed volume of the cached positions, in lots
CachedVolume == Frac(SumOf(positions[1], "volume"), 100)

RiskMetricsAsClaimed ==
    called = "RiskMetrics.calculate_d_leverage" =>
        IF metrics.account_equity > 0
        THEN SameValue(result, DLeverageFormula(metrics.positions_volume, metrics.contract_size,
                                          metrics.account_equity))
        ELSE result = FInt(0)

HasCachedData == account_info # None /\ positions # None

\* C23: calculate_d_leverage returns (volume * contract_size) / equity for every
\* equity > 0 (volume 2.0, equity 50000, contract size 100000 gives 4.0) and 0
\* for every equity <= 0.
C23_DLeverageFormula ==
    /\ RiskMetricsAsClaimed
    /\ (called = "DataManager.calculate_d_leverage" /\ HasCachedData) =>
          IF Account.equity > 0
          THEN SameValue(result, DLeverageFormula(CachedVolume, CONTRACT_SIZE, Account.equity))
          ELSE result = FInt(0)

\* C23, amended: RiskMetrics.calculate_d_leverage is as claimed; DataManager's
\* routine gives the same value for its cached positions and account while it
\* is connected, and 0 while it is disconnected or has no account or positions.
C23_DLeverageFormulaWhileConnected ==
    /\ RiskMetricsAsClaimed
    /\ called = "DataManager.calculate_d_leverage" =>
          IF connected /\ HasCachedData /\ Account.equity > 0
          THEN SameValue(result, DLeverageFormula(CachedVolume, CONTRACT_SIZE, Account.equity))
          ELSE result = FInt(0)

\* The example of the claim.
C23_Witness ==
    /\ called = "RiskMetrics.calculate_d_leverage"
    /\ metrics = [ positions_volume |-> FInt(2), account_equity |-> 50000,
                   contract_size |-> 100000 ]
    /\ result = FInt(4)

\* DataManager's routine on a connected account with 2.00 lots open.
C23_CachedExample ==
    /\ called = "DataManager.calculate_d_leverage"
    /\ connected
    /\ HasCachedData
    /\ Account.equity = 50000
    /\ SameValue(result, FInt(4))

-----------------------------------------------------------------------------
(* Properties of the widgets' history buffers *)

\* the entries of the buffer are the last ones appended, oldest first
LatestOf(buffer, key, log) ==
    /\ Len(buffer) <= Len(log)
    /\ \A i \in 1..Len(buffer) :
          buffer[i] = Sample(key, log[Len(log) - Len(buffer) + i])

\* C24: after any sequence of refresh cycles the history buffers are bounded and
\* have lost only their oldest entries: at most 30 risk scores, at most 30
\* values in each of the Sharpe, Sortino, Calmar and max-drawdown histories, at
\* most 1000 D-Leverage entries, its parallel lists of equal length.
C24_HistoriesBounded ==
    /\ Len(risk_history) = Min(Len(history_log.risk), 30)
    /\ LatestOf(risk_history, "score", history_log.risk)
    /\ \A k \in DOMAIN metrics_history :
          Len(metrics_history[k]) = Min(Len(history_log.metrics), 30)
    /\ LatestOf(metrics_history.sharpe, "sharpe_ratio", history_log.metrics)
    /\ LatestOf(metrics_history.sortino, "sortino_ratio", history_log.metrics)
    /\ LatestOf(metrics_history.calmar, "calmar_ratio", history_log.metrics)
    /\ LatestOf(metrics_history.max_drawdown, "max_drawdown", history_log.metrics)
    /\ Len(d_leverage_history.timestamp) = Min(Len(history_log.d_leverage), 1000)
    /\ Len(d_leverage_history.value) = Len(d_leverage_history.timestamp)
    /\ Len(d_leverage_history.avg_duration) = Len(d_leverage_history.timestamp)
    /\ \A i \in 1..Len(d_leverage_history.timestamp) :
          d_leverage_history.timestamp[i] =
              history_log.d_leverage[Len(history_log.d_leverage)
                                     - Len(d_leverage_history.timestamp) + i]

\* Every buffer has been appended to more often than it holds.
C24_Witness ==
    /\ Len(history_log.d_leverage) > 1000
    /\ Len(d_leverage_history.timestamp) = 1000
    /\ Len(history_log.risk) > 30
    /\ Len(risk_history) = 30
    /\ Len(history_log.metrics) > 30
    /\ Len(metrics_history.sharpe) = 30

-----------------------------------------------------------------------------
(* Atomic commit of check_alerts *)

\* One of the five checks raises in the current snapshot.
CheckRaises ==
    /\ connected
    /\ account_info # None
    /\ \E k \in 1..Len(FiveChecks) : FiveChecks[k].raised

\* C25: check_alerts commits atomically: a call in which a step fails returns
\* two empty lists and leaves the stored histories unchanged, and every call
\* stores exactly the records it returns.
C25_AtomicCommit ==
    [][ now' = now + 1 =>
          /\ last_check' # None
          /\ CheckRaises =>
                /\ last_check'[1] = [ alerts |-> <<>>, opts |-> <<>> ]
                /\ alerts' = alerts
                /\ optimizations' = optimizations
          /\ alerts' = LastRecords(alerts \o last_check'[1].alerts, 50)
          /\ optimizations' = LastRecords(optimizations \o last_check'[1].opts, 20)
          /\ alerts_log' = alerts_log \o last_check'[1].alerts ]_vars

\* A call failed after its margin check had created an alert, with alerts of
\* an earlier call in the history.
C25_Witness ==
    /\ Evaluated
    /\ CheckRaises
    /\ MarginBreach(alert_thresholds)
    /\ CheckMargin.alerts # <<>>
    /\ Returned = [ alerts |-> <<>>, opts |-> <<>> ]
    /\ alerts # <<>>

-----------------------------------------------------------------------------
(* Properties of get_alerts and get_optimizations *)

\* The step is a call of get_alerts or get_optimizations with an integer count.
GetStep == <<called, result>>' # <<called, result>> /\ result'.count # None

\* The list the step's call read.
StoredFor(name) == IF name = "get_alerts" THEN alerts ELSE optimizations

\* C26: for every integer count >= 0, get_alerts(count) returns the
\* min(count, stored) most recent alerts in chronological order and
\* get_optimizations(count) the same for the optimizations; count = 0 returns
\* an empty list.
C26_MostRecentCount ==
    [][ GetStep =>
          result'.records =
              LastRecords(StoredFor(called'),
                          Min(result'.count[1], Len(StoredFor(called')))) ]_vars

\* The same for the counts from 1 on.
C26_MostRecentPositiveCount ==
    [][ GetStep /\ result'.count[1] >= 1 =>
          result'.records =
              LastRecords(StoredFor(called'),
                          Min(result'.count[1], Len(StoredFor(called')))) ]_vars

\* get_alerts(2) has returned two of more stored alerts.
C26_PositiveCountCalled ==
    /\ called = "get_alerts"
    /\ result.count = Some(2)
    /\ Len(result.records) = 2
    /\ Len(alerts) > 2

-----------------------------------------------------------------------------
(* Monotonicity of calculate_global_risk_score *)

\* The component each input feeds.
ComponentOf ==
    [ d_leverage |-> "d_leverage", var_monthly |-> "var", max_drawdown |-> "drawdown",
      margin_pct |-> "margin_pct", concentration |-> "concentration",
      volatility |-> "volatility" ]

\* The values an input is raised to: the choices of the input and the
\* thresholds between the segments of its score.
RaisedValues ==
    [ d_leverage |-> DLeverageChoices \cup { FInt(8), FInt(10), FInt(13), <<65, 4>> },
      var_monthly |-> VarChoices \cup { FInt(5), FInt(10), FInt(15), FInt(25) },
      max_drawdown |-> MaxDrawdownChoices \cup { FInt(5), FInt(-15), FInt(25), FInt(-40) },
      margin_pct |-> MarginChoices \cup { FInt(20), FInt(40), FInt(70), FInt(90) },
      concentration |-> ConcentrationChoices \cup { <<1, 4>>, <<3, 4>> },
      volatility |-> VolatilityChoices \cup { FInt(10), FInt(20), FInt(30), FInt(50) } ]

\* v is an increase of input k of the map m (of its absolute value for the
\* max drawdown).
Increases(m, k, v) ==
    IF k = "max_drawdown" THEN FLeq(FAbs(m[k]), FAbs(v)) ELSE FLeq(m[k], v)

\* C27: with the trading style and all other inputs fixed, increasing one of
\* d_leverage, var_monthly, the absolute max_drawdown, margin_pct,
\* concentration or volatility never decreases that component's score nor the
\* rounded composite score.
C27_Monotone ==
    (Scored /\ HasAllKeys) =>
        \A k \in DOMAIN ComponentOf : \A v \in RaisedValues[k] :
            Increases(metrics, k, v) =>
                LET raised == calculate_global_risk_score([ metrics EXCEPT ![k] = v ]) IN
                /\ FLeq(result.details[ComponentOf[k]], raised.details[ComponentOf[k]])
                /\ result.score <= raised.score

\* A map scored in the middle of the scale, that a higher D-Leverage scores
\* strictly higher and a lower one strictly lower.
C27_Witness ==
    /\ Scored
    /\ HasAllKeys
    /\ metrics.d_leverage = FInt(12)
    /\ metrics.trading_style = "scalping"
    /\ result.score < calculate_global_risk_score(
                          [ metrics EXCEPT !["d_leverage"] = FInt(20) ]).score
    /\ calculate_global_risk_score(
           [ metrics EXCEPT !["d_leverage"] = FInt(10) ]).score < result.score

-----------------------------------------------------------------------------
(* Properties of the DataManager's connection state and caches *)

caches == <<account_info, positions, historical_deals, historical_orders, equity_data>>

RefreshCalls ==
    { "refresh_all_data", "refresh_account_info", "refresh_positions",
      "refresh_historical_deals", "refresh_historical_orders", "calculate_equity_curve" }

\* C28: while the DataManager is not connected, refresh_all_data returns False
\* and every refresh_* and calculate_equity_curve call leaves the cached
\* account_info, positions, historical data and equity_data as they were.
C28_DisconnectedRefreshKeepsCaches ==
    [][ (~connected /\ called' \in RefreshCalls) =>
          /\ caches' = caches
          /\ ~connected'
          /\ called' = "refresh_all_data" => result' = FALSE
          /\ called' # "refresh_all_data" => result' = None ]_vars

\* refresh_all_data has returned False to a disconnected manager whose caches
\* are all filled.
C28_Witness ==
    /\ ~connected
    /\ called = "refresh_all_data"
    /\ result = FALSE
    /\ account_info # None
    /\ positions # None
    /\ historical_deals # None
    /\ historical_orders # None
    /\ equity_data # None

\* C29: after any sequence of connect_to_mt5 and disconnect calls, connected is
\* True exactly when the most recent of those calls was a connect_to_mt5 that
\* reported success.
C29_ConnectedIffLastConnectSucceeded ==
    connected <=> last_call = "connected"

\* The manager never reports connected before a successful connect_to_mt5,
\* nor after a disconnect.
C29_DisconnectedAfterDisconnect ==
    last_call \in {"none", "disconnect"} => ~connected

\* disconnect has been called on a connected manager.
C29_DisconnectCalled ==
    /\ last_call = "disconnect"
    /\ called = "disconnect"
    /\ account_info # None

-----------------------------------------------------------------------------
(* Properties of the monitoring threads *)

\* The threads that have not left their while loop.
Running == { i \in 1..Len(threads) : threads[i].pc # "done" }

\* C30: at most one background monitoring thread is running at any time: a
\* newly started monitoring thread never coexists with a previously started
\* one that is still looping.
C30_AtMostOneMonitor == Cardinality(Running) <= 1

\* Two threads have both found the flag set at their while test and begun a
\* new wait.
C30_TwoMonitorsLooping ==
    \E i, j \in 1..Len(threads) :
        /\ i < j
        /\ threads[i] = [ pc |-> "for", remaining |-> RefreshInterval ]
        /\ threads[j] = [ pc |-> "for", remaining |-> RefreshInterval ]

\* A thread that saw the flag cleared has left its loop before the next one
\* was started.
C30_StoppedThenRestarted ==
    /\ Len(threads) = 2
    /\ threads[1].pc = "done"
    /\ threads[2].pc # "done"

====
